---- MODULE Spec2Model ----
(***************************************************************************)
(* SSA construction of radeco-lib: the phi placer (middle/phiplacement.rs) *)
(* and its driver (frontend/ssaconstructor.rs), as a state machine.        *)
(*                                                                         *)
(* The placer and the SSA graph it owns are one record, `pp`; an operation *)
(* of the code is an operator from such a record to the record after the   *)
(* call.  Operators that also move the address cursor (&mut MAddress) or   *)
(* return a value take and return a context [st, addr, val].               *)
(***************************************************************************)
EXTENDS Integers, Sequences, FiniteSets, TLC

VARIABLES pp, nesting, needs_new_block, current_address, ops, pc, wl, seen,
          wasted_cycles, cin, cout, rin, rout, parser, files

vars == <<pp, nesting, needs_new_block, current_address, ops, pc, wl, seen,
          wasted_cycles, cin, cout, rin, rout, parser, files>>

(***************************************************************************)
(* Bounds of the model.                                                    *)
(***************************************************************************)
\* Number of instructions of the function under construction.
MaxInstr == 3
\* Addresses are modelled in a word of AddrBits bits (u64 in the code).
AddrBits == 5

(***************************************************************************)
(* Program constants.                                                      *)
(***************************************************************************)
FALSE_EDGE == 0
TRUE_EDGE == 1
UNCOND_EDGE == 2
\* The canonical width of a value, and of a constant.
CanonWidth == 64
\* u64::MAX in the modelled word.
U64Max == (2 ^ AddrBits) - 1
\* invalid_action() / invalid_value(): the sentinels of the graph.
InvalidAction == 0
InvalidValue == 0
\* WidthSpec::Unknown.
WUnknown == -1

(***************************************************************************)
(* MAddress: (address, offset), ordered lexicographically.                 *)
(***************************************************************************)
MAddr(a, o) == <<a, o>>
MLt(a, b) == a[1] < b[1] \/ (a[1] = b[1] /\ a[2] < b[2])
MLeq(a, b) == a = b \/ MLt(a, b)
MMax(S) == CHOOSE k \in S : \A j \in S : MLeq(j, k)

(***************************************************************************)
(* Finite maps.                                                            *)
(***************************************************************************)
EmptyMap == [x \in {} |-> 0]
Put(f, k, v) == [x \in (DOMAIN f) \cup {k} |-> IF x = k THEN v ELSE f[x]]
Del(f, k) == [x \in (DOMAIN f) \ {k} |-> f[x]]
Has(f, k) == k \in DOMAIN f
Range(f) == {f[x] : x \in DOMAIN f}
\* Let([x \in {v} |-> e]) is e with x bound to the value v: a local binding
\* whose value is computed once.
Let(f) == f[CHOOSE x \in DOMAIN f : TRUE]

SeqSet(q) == {q[i] : i \in 1..Len(q)}

(***************************************************************************)
(* The register file: whole registers (VarId 0..R-1) and the sub-registers *)
(* over them; VarId R is `mem`.                                            *)
(***************************************************************************)
WholeNames == <<"rax", "rflags", "rdi">>
WholeWidths == <<64, 64, 64>>
NumWhole == Len(WholeNames)
MemId == NumWhole
VarIds == 0..MemId
\* variable_types: the whole registers, then Known(0) for mem.
variable_types == [v \in VarIds |-> IF v < NumWhole THEN WholeWidths[v + 1] ELSE 0]
SubRegs == [rax |-> [base |-> 0, shift |-> 0, width |-> 64],
            eax |-> [base |-> 0, shift |-> 0, width |-> 32],
            al |-> [base |-> 0, shift |-> 0, width |-> 8],
            ah |-> [base |-> 0, shift |-> 8, width |-> 8],
            rflags |-> [base |-> 1, shift |-> 0, width |-> 64],
            zf |-> [base |-> 1, shift |-> 6, width |-> 1],
            rdi |-> [base |-> 2, shift |-> 0, width |-> 64]]
RegNames == DOMAIN SubRegs
\* alias_info.get("PC")
PCName == "rip"
get_subregister(name) == IF name \in RegNames THEN SubRegs[name] ELSE [base |-> -1, shift |-> 0, width |-> 0]

(***************************************************************************)
(* Bit vectors.  A u64 is the set of its one-bits; the operations of the   *)
(* code on u64 values are then set operations, with no overflow.           *)
(***************************************************************************)
BitPos == 0..(CanonWidth - 1)
\* The bits of a small natural number (below 2^31).
Bits(n) == {i \in 0..30 : (n \div (2 ^ i)) % 2 = 1}
\* The natural number of a bit vector whose bits are all below 7, else 127.
ToNat(b) == IF \E i \in b : i > 6 THEN 127 ELSE CHOOSE n \in 0..127 : Bits(n) = b
\* v << k and v >> k within a word of w bits.
BvShl(b, k, w) == {i + k : i \in {j \in b : j + k < w}}
BvShr(b, k) == {i - k : i \in {j \in b : j >= k}}
\* (1 << w) - 1
LowMask(w) == {i \in BitPos : i < w}
BvNot(b) == BitPos \ b
BvXor(a, b) == (a \ b) \cup (b \ a)

(***************************************************************************)
(* The SSA graph (SSAStorage) behind the SSAMod / SSAExtra / Graph traits. *)
(* A value is its index in `nodes`, an action its index in `bstart`;       *)
(* index 0 is the invalid sentinel.  Operand i of a value is args[i + 1],  *)
(* 0 where the value has no operand at that index.                         *)
(***************************************************************************)
NewNode(nt, opc, par, cv, w) == [nt |-> nt, opc |-> opc, par |-> par, cv |-> cv, w |-> w, args |-> <<>>, live |-> TRUE]

\* insert_op / insert_phi / insert_const / insert_undefined / insert_comment
insert_node(s, n) == [st |-> [s EXCEPT !.nodes = Append(@, n)], val |-> Len(s.nodes) + 1]

\* insert_block(bb) / insert_dynamic(): a new action starting at bb.
\* The block gets its register-state pseudo-operation.
insert_block(s, bb) == Let([r \in {insert_node(s, NewNode("RegisterState", "", 0, {}, 0))} |->
    [st |-> [r.st EXCEPT !.bstart = Append(@, bb), !.regstate = Append(@, r.val)], val |-> Len(s.bstart) + 1]])

\* node_data(v) is Ok
node_ok(s, v) == v \in 1..Len(s.nodes) /\ s.nodes[v].live

IsPhi(s, v) == node_ok(s, v) /\ s.nodes[v].nt = "Phi"
IsConst(s, v) == node_ok(s, v) /\ s.nodes[v].nt = "Const"
IsOpc(s, v, opc) == node_ok(s, v) /\ s.nodes[v].nt = "Op" /\ s.nodes[v].opc = opc

\* operands_of(v): the operands in index order, holes skipped.
operands_of(s, v) == IF node_ok(s, v) THEN SelectSeq(s.nodes[v].args, LAMBDA x : x # 0) ELSE <<>>

\* sparse_operands_of(v): the set of (index, child).
sparse_operands_of(s, v) == IF node_ok(s, v) THEN {<<i - 1, s.nodes[v].args[i]>> : i \in {j \in 1..Len(s.nodes[v].args) : s.nodes[v].args[j] # 0}} ELSE {}

\* uses_of(v): the values that have v as an operand.
uses_of(s, v) == {u \in 1..Len(s.nodes) : s.nodes[u].live /\ v \in SeqSet(s.nodes[u].args)}

SetArg(args, index, child) == [i \in 1..(IF Len(args) > index THEN Len(args) ELSE index + 1) |-> IF i = index + 1 THEN child ELSE IF i <= Len(args) THEN args[i] ELSE 0]

\* op_use(parent, index, child): child becomes operand `index` of parent,
\* replacing any operand there; an edge touching a sentinel is suppressed.
op_use(s, parent, index, child) == IF node_ok(s, parent) /\ node_ok(s, child) THEN [s EXCEPT !.nodes[parent].args = SetArg(@, index, child)] ELSE s

\* phi_use(phi, child): child is appended to the operands of phi.
phi_use(s, phi, child) == IF node_ok(s, phi) /\ node_ok(s, child) THEN [s EXCEPT !.nodes[phi].args = Append(@, child)] ELSE s

\* op_unuse(parent, child): the operand edge parent -> child is removed.
op_unuse(s, parent, child) == IF node_ok(s, parent) THEN [s EXCEPT !.nodes[parent].args = [i \in 1..Len(@) |-> IF @[i] = child THEN 0 ELSE @[i]]] ELSE s

\* remove_value(v): v and every edge at v leave the graph.
remove_value(s, v) == IF node_ok(s, v) THEN [s EXCEPT !.nodes = [u \in 1..Len(@) |-> IF u = v THEN [@[u] EXCEPT !.live = FALSE, !.args = <<>>] ELSE [@[u] EXCEPT !.args = [i \in 1..Len(@) |-> IF @[i] = v THEN 0 ELSE @[i]]]]] ELSE s

\* replace_value(old, new): every use of old becomes a use of new, and old
\* is removed.
replace_value(s, old, new) == IF ~node_ok(s, old) \/ old = new THEN s ELSE [s EXCEPT !.nodes = [u \in 1..Len(@) |-> IF u = old THEN [@[u] EXCEPT !.live = FALSE, !.args = <<>>] ELSE [@[u] EXCEPT !.args = [i \in 1..Len(@) |-> IF @[i] = old THEN new ELSE @[i]]]]]

\* insert_control_edge(src, dst, kind): edges touching the sentinel are
\* suppressed; parallel edges are kept (the graph is a multigraph).
insert_control_edge(s, src, dst, kind) == IF src = InvalidAction \/ dst = InvalidAction THEN s ELSE [s EXCEPT !.edges = Append(@, [src |-> src, dst |-> dst, ty |-> kind])]

\* remove_control_edge(e), e the index of the edge in `edges`.
remove_control_edge(s, e) == [s EXCEPT !.edges = [i \in 1..(Len(@) - 1) |-> IF i < e THEN @[i] ELSE @[i + 1]]]

\* preds_of(block) / succs_of(block): one entry for every control edge.
preds_of(s, b) == Let([es \in {SelectSeq(s.edges, LAMBDA e : e.dst = b)} |->
    [i \in 1..Len(es) |-> es[i].src]])
succs_of(s, b) == Let([es \in {SelectSeq(s.edges, LAMBDA e : e.src = b)} |->
    [i \in 1..Len(es) |-> es[i].dst]])
outgoing_edges(s, b) == {i \in 1..Len(s.edges) : s.edges[i].src = b}

\* The index of the out-edge of b of the given kind, 0 (invalid_edge) if none.
edge_of_kind(s, b, kind) == IF \E i \in outgoing_edges(s, b) : s.edges[i].ty = kind THEN CHOOSE i \in outgoing_edges(s, b) : s.edges[i].ty = kind ELSE 0

\* conditional_edges(block): Some((false_edge, true_edge)) when the block has
\* both, None otherwise.
conditional_edges(s, b) == IF edge_of_kind(s, b, FALSE_EDGE) # 0 /\ edge_of_kind(s, b, TRUE_EDGE) # 0 THEN <<edge_of_kind(s, b, FALSE_EDGE), edge_of_kind(s, b, TRUE_EDGE)>> ELSE <<0, 0>>

\* unconditional_edge(block)
unconditional_edge(s, b) == edge_of_kind(s, b, UNCOND_EDGE)

\* starting_address(block)
starting_address(s, b) == s.bstart[b]

\* blocks(): every basic block of the graph; the exit node is a dynamic
\* action, not a basic block.
ssa_blocks(s) == (1..Len(s.bstart)) \ {s.exit}

\* values(): every value of the graph.
ssa_values(s) == {v \in 1..Len(s.nodes) : s.nodes[v].live /\ s.nodes[v].nt # "RegisterState"}

(***************************************************************************)
(* PhiPlacer.                                                              *)
(* Register-name metadata (set_register, propagate_reginfo and the         *)
(* incomplete_propagation set) decorates values and decides nothing; it is *)
(* left out.                                                               *)
(***************************************************************************)
Ctx(s, a, v) == [st |-> s, addr |-> a, val |-> v]

\* Parser::init: the RTL parser of run() before its first call.  `live` says
\* that the parser holds the tokens of an instruction, `tokens` are those
\* it has not handed out yet, `failed` that its last call returned Err.
ParserInit == [live |-> FALSE, tokens |-> <<>>, failed |-> FALSE]

\* A block_of whose range leaves out its lower end, the address (0,0).
block_of_above(s, address) == Let([ks \in {{k \in DOMAIN s.blocks : MLt(MAddr(0, 0), k) /\ MLeq(k, address)}} |->
    IF ks = {} THEN InvalidAction ELSE s.blocks[MMax(ks)]])

\* block_of(address): the block of the greatest key of `blocks` in
\* [(0,0), address]; InvalidAction stands for None.
block_of(s, address) == Let([ks \in {{k \in DOMAIN s.blocks : MLeq(MAddr(0, 0), k) /\ MLeq(k, address)}} |->
    IF ks = {} THEN InvalidAction ELSE s.blocks[MMax(ks)]])

\* addr_of(block)
addr_of(s, block) == IF block \in 1..Len(s.bstart) THEN starting_address(s, block) ELSE MAddr(0, 0)

\* operand_width(node)
operand_width(s, node) == IF node_ok(s, node) /\ s.nodes[node].w # WUnknown THEN s.nodes[node].w ELSE CanonWidth

\* write_variable(address, variable, value)
write_variable(s, address, variable, value) == [s EXCEPT !.current_def[variable] = Put(@, address, value), !.outputs = Put(@, value, variable)]

\* current_def_at bounded by the query address.
current_def_at_below(s, variable, address) == Let([ds \in {{d \in DOMAIN s.current_def[variable] : MLeq(d, address)}} |->
    IF ds = {} THEN <<>> ELSE <<MMax(ds), s.current_def[variable][MMax(ds)]>>])

\* current_def_at(variable, address): the first definition, from the
\* greatest address down, that is not both in another block and above
\* `address`; <<>> stands for None.
current_def_at(s, variable, address) == Let([ds \in {{d \in DOMAIN s.current_def[variable] : ~(block_of(s, d) # block_of(s, address) /\ MLt(address, d))}} |->
    IF ds = {} THEN <<>> ELSE <<MMax(ds), s.current_def[variable][MMax(ds)]>>])

\* current_def_in_block(variable, address); InvalidValue stands for None.
current_def_in_block(s, variable, address) == Let([v \in {current_def_at(s, variable, address)} |->
    IF v # <<>> /\ block_of(s, v[1]) = block_of(s, address) THEN v[2] ELSE InvalidValue])

\* add_phi(address, vt)
add_phi(s, address, vt) == Let([r \in {insert_node(s, NewNode("Phi", "", 0, {}, vt))} |->
    Ctx([r.st EXCEPT !.index_to_addr = Put(@, r.val, address)], MAddr(address[1], address[2] + 1), r.val)])

\* An undefined value that is given the canonical width, whatever its type.
add_undefined_canon(s, address, vt) == Let([r \in {insert_node(s, NewNode("Undefined", "", 0, {}, CanonWidth))} |->
    Ctx([r.st EXCEPT !.index_to_addr = Put(@, r.val, address)], address, r.val)])

\* add_undefined(address, vt)
add_undefined(s, address, vt) == Let([r \in {insert_node(s, NewNode("Undefined", "", 0, {}, vt))} |->
    Ctx([r.st EXCEPT !.index_to_addr = Put(@, r.val, address)], address, r.val)])

\* add_comment(address, vt, msg)
add_comment(s, address, vt, msg) == Let([r \in {insert_node(s, NewNode("Comment", msg, 0, {}, vt))} |->
    Ctx([r.st EXCEPT !.index_to_addr = Put(@, r.val, address)], address, r.val)])

\* add_op(op, address, vt); `par` is the width of OpNarrow / OpZeroExt.
add_op(s, opc, par, address, vt) == Let([r \in {insert_node(s, NewNode("Op", opc, par, {}, vt))} |->
    Ctx([r.st EXCEPT !.index_to_addr = Put(@, r.val, address)], MAddr(address[1], address[2] + 1), r.val)])

\* insert_const(value, size): a constant of `size` bits, 64 without a size.
insert_const(s, value, size) == insert_node(s, NewNode("Const", "", 0, value, size))

\* The first loop of try_remove_trivial_phi with the self-reference test
\* left out: the phi counts among its own operands.
trivial_same_self(s, phi) == Let([others \in {SeqSet(operands_of(s, phi))} |->
    IF Cardinality(others) >= 2 THEN phi ELSE IF others = {} THEN InvalidValue ELSE CHOOSE x \in others : TRUE])

\* The first loop of try_remove_trivial_phi: the phi itself when two
\* distinct operands other than the phi are found, else the one such
\* operand, or InvalidValue when there is none.
trivial_same(s, phi) == Let([others \in {SeqSet(operands_of(s, phi)) \ {phi}} |->
    IF Cardinality(others) >= 2 THEN phi ELSE IF others = {} THEN InvalidValue ELSE CHOOSE x \in others : TRUE])

RECURSIVE read_variable(_, _, _)
RECURSIVE read_variable_recursive(_, _, _)
RECURSIVE add_phi_operands_from(_, _, _, _, _)
RECURSIVE try_remove_trivial_phi(_, _)
RECURSIVE try_remove_users(_, _)

\* The loop of add_phi_operands over preds[i..].
add_phi_operands_from(s, preds, i, variable, phi) == IF i > Len(preds) THEN s ELSE Let([r \in {read_variable(s, addr_of(s, preds[i]), variable)} |->
    add_phi_operands_from(phi_use(r.st, phi, r.val), preds, i + 1, variable, phi)])

\* add_phi_operands(block, variable, phi): [st, val]
add_phi_operands(s, block, variable, phi) == try_remove_trivial_phi(add_phi_operands_from(s, preds_of(s, block), 1, variable, phi), phi)

\* The last loop of try_remove_trivial_phi, over the users of the phi.
try_remove_users(s, users) == IF users = {} THEN s ELSE Let([u \in {CHOOSE x \in users : \A y \in users : x <= y} |->
    try_remove_users(IF IsPhi(s, u) THEN try_remove_trivial_phi(s, u).st ELSE s, users \ {u})])

\* try_remove_trivial_phi(phi): [st, val]
try_remove_trivial_phi(s, phi) == Let([found \in {trivial_same(s, phi)} |->
    IF found = phi THEN [st |-> s, val |-> phi] ELSE Let([phi_addr \in {s.index_to_addr[phi]} |->
    Let([block_addr \in {addr_of(s, block_of(s, phi_addr))} |->
    Let([u \in {IF found = InvalidValue THEN add_undefined(s, block_addr, s.nodes[phi].w) ELSE Ctx(s, block_addr, found)} |->
    Let([same \in {u.val} |->
    Let([users \in {uses_of(u.st, phi) \ {phi, same}} |->
    Let([s1 \in {replace_value(u.st, phi, same)} |->
    Let([s2 \in {IF Has(s1.outputs, phi) THEN Let([var_id \in {s1.outputs[phi]} |->
    [s1 EXCEPT !.outputs = Put(Del(@, phi), same, var_id), !.incomplete_phis = IF Has(@, block_addr) /\ Has(@[block_addr], var_id) /\ @[block_addr][var_id] = phi THEN [@ EXCEPT ![block_addr] = Del(@, var_id)] ELSE @]]) ELSE s1} |->
    Let([s3 \in {[s2 EXCEPT !.current_def = [v \in VarIds |-> [d \in DOMAIN @[v] |-> IF @[v][d] = phi THEN same ELSE @[v][d]]]]} |->
    [st |-> try_remove_users(s3, users), val |-> same]])])])])])])])])])

\* read_variable(address, variable): [st, addr, val]
read_variable(s, address, variable) == Let([v \in {current_def_in_block(s, variable, address)} |->
    IF v # InvalidValue THEN Ctx(s, address, v) ELSE read_variable_recursive(s, variable, address)])

\* The unsealed branch of read_variable_recursive with the table lookup left
\* out: the new phi always becomes the incomplete phi of the variable.
incomplete_phi_fresh(s, variable, address, valtype, block_addr) == Let([p \in {add_phi(s, address, valtype)} |->
    Ctx([p.st EXCEPT !.incomplete_phis[block_addr] = Put(@, variable, p.val)], p.addr, p.val)])

\* The unsealed branch of read_variable_recursive: a phi is added, then the
\* incomplete phi already recorded for the variable is returned, or the new
\* phi is recorded and returned.
incomplete_phi(s, variable, address, valtype, block_addr) == Let([p \in {add_phi(s, address, valtype)} |->
    IF Has(p.st.incomplete_phis[block_addr], variable) THEN Ctx(p.st, p.addr, p.st.incomplete_phis[block_addr][variable]) ELSE Ctx([p.st EXCEPT !.incomplete_phis[block_addr] = Put(@, variable, p.val)], p.addr, p.val)])

\* read_variable_recursive(variable, address): [st, addr, val]
read_variable_recursive(s, variable, address) == Let([block \in {block_of(s, address)} |->
    Let([valtype \in {variable_types[variable]} |->
    Let([r \in {IF block \in s.sealed_blocks THEN Let([preds \in {preds_of(s, block)} |->
    IF Len(preds) = 1 THEN Ctx(read_variable(s, addr_of(s, preds[1]), variable).st, address, read_variable(s, addr_of(s, preds[1]), variable).val) ELSE Let([p \in {add_phi(s, address, valtype)} |->
    Let([a \in {add_phi_operands(write_variable(p.st, p.addr, variable, p.val), block, variable, p.val)} |->
    Ctx(a.st, p.addr, a.val)])])]) ELSE incomplete_phi(s, variable, address, valtype, addr_of(s, block))} |->
    Ctx(write_variable(r.st, r.addr, variable, r.val), r.addr, r.val)])])])

\* new_block(bb): the block mapped at bb, or a new one (not yet mapped).
new_block(s, bb) == IF Has(s.blocks, bb) THEN [st |-> s, val |-> s.blocks[bb]] ELSE Let([r \in {insert_block(s, bb)} |->
    [st |-> [r.st EXCEPT !.incomplete_phis = Put(@, bb, EmptyMap)], val |-> r.val]])

\* The edge-moving loop of add_block: each of the false, true and
\* unconditional out-edge of the upper block that does not go to the lower
\* block moves to the lower block.
move_edges(s, upper_block, lower_block) == Let([ce \in {conditional_edges(s, upper_block)} |->
    Let([outgoing \in {<<ce[1], ce[2], unconditional_edge(s, upper_block)>>} |->
    Let([moved \in {{i \in 1..3 : outgoing[i] # 0 /\ s.edges[outgoing[i]].dst # lower_block}} |->
    Let([gone \in {{outgoing[i] : i \in moved}} |->
    Let([kept \in {SelectSeq([i \in 1..Len(s.edges) |-> IF i \in gone THEN [src |-> 0, dst |-> 0, ty |-> 0] ELSE s.edges[i]], LAMBDA e : e.src # 0)} |->
    Let([added \in {SelectSeq([i \in 1..3 |-> IF i \in moved THEN [src |-> lower_block, dst |-> s.edges[outgoing[i]].dst, ty |-> i - 1] ELSE [src |-> 0, dst |-> 0, ty |-> 0]], LAMBDA e : e.src # 0)} |->
    [s EXCEPT !.edges = kept \o added]])])])])])])

\* The values of the lower part of a split at `at` that have an operand to
\* re-resolve: a non-constant operand of the upper block that is the
\* residence of a variable.
resolvable_operands(s, ni, upper_block) == {o \in sparse_operands_of(s, ni) : ~IsConst(s, o[2]) /\ Has(s.index_to_addr, o[2]) /\ block_of(s, s.index_to_addr[o[2]]) = upper_block /\ Has(s.outputs, o[2])}

RECURSIVE resolve_operands(_, _, _, _)
\* The inner loop of the split: each operand of ni in `todo` is detached and
\* replaced by read_variable_recursive of its variable at `at`.
resolve_operands(s, ni, todo, at) == IF todo = {} THEN s ELSE Let([o \in {CHOOSE x \in todo : \A y \in todo : x[1] <= y[1]} |->
    Let([s1 \in {op_unuse(s, ni, o[2])} |->
    Let([r \in {read_variable_recursive(s1, s1.outputs[o[2]], at)} |->
    resolve_operands(op_use(r.st, ni, o[1], r.val), ni, todo \ {o}, at)])])])

RECURSIVE resolve_values(_, _, _, _)
\* The outer loop of the split over the values it reaches.
resolve_values(s, nis, upper_block, at) == IF nis = {} THEN s ELSE Let([ni \in {CHOOSE x \in nis : \A y \in nis : x <= y} |->
    resolve_values(resolve_operands(s, ni, resolvable_operands(s, ni, upper_block), at), nis \ {ni}, upper_block, at)])

\* The values with a recorded address in the block `lower_block`, at or
\* above `at`.
lower_values(s, at, lower_block) == {ni \in DOMAIN s.index_to_addr : MLeq(at, s.index_to_addr[ni]) /\ block_of(s, s.index_to_addr[ni]) = lower_block}

\* add_block(at, current_addr, edge_type).  <<>> is None for current_addr,
\* -1 for edge_type.  The split walks index_to_addr, a HashMap, and stops at
\* the first value at or above `at` that lies outside the lower block (the
\* phis of the exit block are such values), so it reaches the values of the
\* lower block that the iteration order puts before that one: `pick`.
add_block(s, at, current_addr, edge_type, pick) == Let([is_seen \in {current_addr # <<>> /\ MLt(at, current_addr) /\ block_of(s, at) # InvalidAction} |->
    Let([upper_block \in {IF is_seen THEN block_of(s, at) ELSE InvalidAction} |->
    Let([nb \in {new_block(s, at)} |->
    Let([lower_block \in {nb.val} |->
    Let([s1 \in {IF edge_type # -1 /\ current_addr # <<>> THEN insert_control_edge(nb.st, block_of(nb.st, current_addr), lower_block, edge_type) ELSE nb.st} |->
    IF upper_block = lower_block THEN [st |-> s1, val |-> upper_block] ELSE IF is_seen THEN Let([s2 \in {move_edges(s1, upper_block, lower_block)} |->
    Let([s3 \in {insert_control_edge(s2, upper_block, lower_block, UNCOND_EDGE)} |->
    Let([s4 \in {[s3 EXCEPT !.blocks = Put(@, at, lower_block)]} |->
    [st |-> resolve_values(s4, pick \cap lower_values(s4, at, lower_block), upper_block, at), val |-> lower_block]])])]) ELSE [st |-> [s1 EXCEPT !.blocks = Put(@, at, lower_block)], val |-> lower_block]])])])])])

\* The values a split at `at` from `current_addr` would have to re-resolve.
split_candidates(s, at, current_addr) == IF current_addr # <<>> /\ MLt(at, current_addr) /\ block_of(s, at) # InvalidAction /\ ~Has(s.blocks, at) THEN {ni \in DOMAIN s.index_to_addr : MLeq(at, s.index_to_addr[ni]) /\ block_of(s, s.index_to_addr[ni]) = block_of(s, at) /\ {o \in resolvable_operands(s, ni, block_of(s, at)) : MLt(s.index_to_addr[o[2]], at)} # {}} ELSE {}

\* add_indirect_cf(selector, current_addr, edge_type): [st, addr, val]
add_indirect_cf(s, selector, current_addr, edge_type) == Let([source_block \in {block_of(s, current_addr)} |->
    Let([unexplored_addr \in {MAddr(s.unexplored_addr, 0)} |->
    Let([s1 \in {[s EXCEPT !.unexplored_addr = @ - 1]} |->
    Let([nb \in {new_block(s1, unexplored_addr)} |->
    Let([s2 \in {insert_control_edge([nb.st EXCEPT !.blocks = Put(@, unexplored_addr, nb.val)], source_block, nb.val, edge_type)} |->
    Let([o \in {add_op(s2, "OpITE", 0, current_addr, 1)} |->
    Ctx(op_use(o.st, o.val, 0, selector), o.addr, o.val)])])])])])])

\* A return edge that is the false edge of its block.
add_return_false(s, current_addr, edge_type) == insert_control_edge(s, block_of(s, current_addr), s.exit, FALSE_EDGE)

\* add_return(current_addr, edge_type)
add_return(s, current_addr, edge_type) == insert_control_edge(s, block_of(s, current_addr), s.exit, edge_type)

\* add_edge(source, target, cftype)
add_edge(s, source, target, cftype) == insert_control_edge(s, block_of(s, source), block_of(s, target), cftype)

\* A fall-through edge that is added whatever edges the source block has.
maybe_add_edge_always(s, source, target) == IF block_of(s, target) # block_of(s, source) THEN insert_control_edge(s, block_of(s, source), block_of(s, target), UNCOND_EDGE) ELSE s

\* maybe_add_edge(source, target)
maybe_add_edge(s, source, target) == Let([source_block \in {block_of(s, source)} |->
    Let([target_block \in {block_of(s, target)} |->
    IF outgoing_edges(s, source_block) = {} /\ target_block # source_block THEN insert_control_edge(s, source_block, target_block, UNCOND_EDGE) ELSE s])])

RECURSIVE seal_vars(_, _, _)
\* The loop of seal_block over the variables that had an incomplete phi
\* when the call began; variables are independent of each other, the loop
\* takes them in ascending order.
seal_vars(s, block, keys) == IF keys = {} THEN s ELSE Let([variable \in {CHOOSE x \in keys : \A y \in keys : x <= y} |->
    Let([block_addr \in {addr_of(s, block)} |->
    Let([node \in {IF Has(s.incomplete_phis[block_addr], variable) THEN s.incomplete_phis[block_addr][variable] ELSE InvalidValue} |->
    IF ~node_ok(s, node) THEN seal_vars(s, block, keys \ {variable}) ELSE Let([a \in {add_phi_operands(s, block, variable, node)} |->
    Let([s1 \in {IF IsPhi(a.st, a.val) THEN [a.st EXCEPT !.incomplete_phis[block_addr] = Put(@, variable, a.val)] ELSE a.st} |->
    Let([s2 \in {[s1 EXCEPT !.current_def[variable] = [d \in DOMAIN @ |-> IF @[d] = node THEN a.val ELSE @[d]]]} |->
    seal_vars(s2, block, keys \ {variable})])])])])])])

\* seal_block(block)
seal_block(s, block) == [seal_vars(s, block, DOMAIN s.incomplete_phis[addr_of(s, block)]) EXCEPT !.sealed_blocks = @ \cup {block}]

RECURSIVE sync_from(_, _, _)
\* sync_register_state(block), from variable `var` on.
sync_from(s, block, var) == IF var > MemId THEN s ELSE Let([r \in {read_variable(s, addr_of(s, block), var)} |->
    sync_from(op_use(r.st, r.st.regstate[block], var, r.val), block, var + 1)])

sync_register_state(s, block) == sync_from(s, block, 0)

\* add_dynamic(): the exit block, keyed by u64::MAX.
add_dynamic(s) == Let([r \in {insert_block(s, MAddr(U64Max, 0))} |->
    Let([dyn_addr \in {MAddr(U64Max, 0)} |->
    [st |-> sync_register_state([r.st EXCEPT !.blocks = Put(@, dyn_addr, r.val), !.incomplete_phis = Put(@, dyn_addr, EmptyMap)], r.val), val |-> r.val]])])

\* Option<ValueInfo>::None for add_const.
NoVt == -2

\* An add_const that wraps every constant with a declared width up to 64
\* bits, 64 included, in a narrow.
add_const_narrow64(s, address, value, vt_option) == IF vt_option = NoVt THEN Let([c \in {insert_const(s, value, CanonWidth)} |->
    Ctx(c.st, address, c.val)]) ELSE Let([width \in {IF vt_option = WUnknown THEN 64 ELSE vt_option} |->
    IF width <= 64 THEN Let([c \in {insert_const(s, value \cap {width - 1}, width)} |->
    Let([n \in {add_op(c.st, "OpNarrow", width, address, vt_option)} |->
    Ctx(op_use(n.st, n.val, 0, c.val), n.addr, n.val)])]) ELSE Let([c \in {insert_const(s, value, width)} |->
    Ctx(c.st, address, c.val)])])

\* add_const(address, value, vt_option): [st, addr, val]
add_const(s, address, value, vt_option) == IF vt_option = NoVt THEN Let([c \in {insert_const(s, value, CanonWidth)} |->
    Ctx(c.st, address, c.val)]) ELSE Let([width \in {IF vt_option = WUnknown THEN 64 ELSE vt_option} |->
    IF width < 64 THEN Let([c \in {insert_const(s, value \cap {width - 1}, width)} |->
    Let([n \in {add_op(c.st, "OpNarrow", width, address, vt_option)} |->
    Ctx(op_use(n.st, n.val, 0, c.val), n.addr, n.val)])]) ELSE Let([c \in {insert_const(s, value, width)} |->
    Ctx(c.st, address, c.val)])])

\* An operation with one or two operands: add_op then op_use.
op1(s, opc, par, address, vt, a) == Let([o \in {add_op(s, opc, par, address, vt)} |->
    Ctx(op_use(o.st, o.val, 0, a), o.addr, o.val)])
op2(s, opc, par, address, vt, a, b) == Let([o \in {add_op(s, opc, par, address, vt)} |->
    Ctx(op_use(op_use(o.st, o.val, 0, a), o.val, 1, b), o.addr, o.val)])

\* read_register with the test of the shift left out: the Lsr is emitted
\* for every register.
read_register_lsr(s, address, var) == Let([info \in {get_subregister(var)} |->
    IF info.base = -1 THEN add_undefined(s, address, WUnknown) ELSE Let([r \in {read_variable(s, address, info.base)} |->
    Let([width \in {operand_width(r.st, r.val)} |->
    Let([r1 \in {Let([c \in {add_const(r.st, r.addr, Bits(info.shift), width)} |->
    op2(c.st, "OpLsr", 0, c.addr, width, r.val, c.val)])} |->
    Let([r2 \in {IF info.width < width THEN op1(r1.st, "OpNarrow", info.width, r1.addr, info.width, r1.val) ELSE r1} |->
    r2])])])])])

\* read_register(address, var): [st, addr, val]
read_register(s, address, var) == Let([info \in {get_subregister(var)} |->
    IF info.base = -1 THEN add_undefined(s, address, WUnknown) ELSE Let([r \in {read_variable(s, address, info.base)} |->
    Let([width \in {operand_width(r.st, r.val)} |->
    Let([r1 \in {IF info.shift > 0 THEN Let([c \in {add_const(r.st, r.addr, Bits(info.shift), width)} |->
    op2(c.st, "OpLsr", 0, c.addr, width, r.val, c.val)]) ELSE r} |->
    Let([r2 \in {IF info.width < width THEN op1(r1.st, "OpNarrow", info.width, r1.addr, info.width, r1.val) ELSE r1} |->
    r2])])])])])

\* write_register(address, var, value): [st, addr, val]; val is unused.
write_register(s, address, var, value) == Let([info \in {get_subregister(var)} |->
    IF info.base = -1 THEN Ctx(s, address, InvalidValue) ELSE Let([id \in {info.base} |->
    Let([vt \in {variable_types[id]} |->
    Let([width \in {IF vt = WUnknown THEN 64 ELSE vt} |->
    IF info.width >= width THEN Let([vw \in {operand_width(s, value)} |->
    Let([m \in {IF width = vw THEN op1(s, "OpMov", 0, address, vt, value) ELSE IF width < vw THEN op1(s, "OpNarrow", width, address, vt, value) ELSE op1(s, "OpZeroExt", width, address, vt, value)} |->
    Ctx(write_variable(m.st, m.addr, id, m.val), m.addr, m.val)])]) ELSE Let([z \in {IF operand_width(s, value) < width THEN op1(s, "OpZeroExt", width, address, vt, value) ELSE Ctx(s, address, value)} |->
    Let([sh \in {IF info.shift > 0 THEN Let([c \in {add_const(z.st, z.addr, Bits(info.shift), vt)} |->
    Let([l \in {op2(c.st, "OpLsl", 0, c.addr, vt, z.val, c.val)} |->
    Ctx(l.st, l.addr, c.val)])]) ELSE z} |->
    Let([fullval \in {BvNot(BvShl(BvNot({0}), width - 1, 64))} |->
    Let([maskval \in {BvXor(BvShl(BvNot(BvShl(BvNot({0}), info.width - 1, 64)), info.shift, 64), fullval)} |->
    IF maskval = {} THEN Ctx(write_variable(sh.st, sh.addr, id, sh.val), sh.addr, sh.val) ELSE Let([ov \in {read_variable(sh.st, sh.addr, id)} |->
    Let([mk \in {add_const(ov.st, ov.addr, maskval, vt)} |->
    Let([op_and \in {op2(mk.st, "OpAnd", 0, mk.addr, vt, ov.val, mk.val)} |->
    Let([op_or \in {op2(op_and.st, "OpOr", 0, op_and.addr, vt, sh.val, op_and.val)} |->
    Ctx(write_variable(op_or.st, op_or.addr, id, op_or.val), op_or.addr, op_or.val)])])])])])])])])])])])])

\* narrow_const_operand with the victim exchanged: the Narrow wraps the
\* operand whose width is below 64.
narrow_const_operand_swapped(s, address, lhs, rhs) == Let([same \in {[st |-> s, addr |-> address, lhs |-> lhs, rhs |-> rhs]} |->
    IF lhs = 0 \/ rhs = 0 THEN same ELSE Let([lhs_size \in {operand_width(s, lhs)} |->
    Let([rhs_size \in {operand_width(s, rhs)} |->
    Let([victim_is_rhs \in {~(lhs_size < 64)} |->
    Let([victim_size \in {IF victim_is_rhs THEN rhs_size ELSE lhs_size} |->
    IF (IsConst(s, lhs) # IsConst(s, rhs)) /\ victim_size < 64 THEN Let([n \in {op1(s, "OpNarrow", victim_size, address, victim_size, IF victim_is_rhs THEN rhs ELSE lhs)} |->
    [st |-> n.st, addr |-> n.addr, lhs |-> IF victim_is_rhs THEN lhs ELSE n.val, rhs |-> IF victim_is_rhs THEN n.val ELSE rhs]]) ELSE same])])])])])

\* narrow_const_operand(address, lhs, rhs): [st, addr, lhs, rhs]; 0 is None.
narrow_const_operand(s, address, lhs, rhs) == Let([same \in {[st |-> s, addr |-> address, lhs |-> lhs, rhs |-> rhs]} |->
    IF lhs = 0 \/ rhs = 0 THEN same ELSE Let([lhs_size \in {operand_width(s, lhs)} |->
    Let([rhs_size \in {operand_width(s, rhs)} |->
    Let([victim_is_rhs \in {lhs_size < 64} |->
    Let([victim_size \in {IF victim_is_rhs THEN lhs_size ELSE rhs_size} |->
    IF (IsConst(s, lhs) # IsConst(s, rhs)) /\ victim_size < 64 THEN Let([n \in {op1(s, "OpNarrow", victim_size, address, victim_size, IF victim_is_rhs THEN rhs ELSE lhs)} |->
    [st |-> n.st, addr |-> n.addr, lhs |-> IF victim_is_rhs THEN lhs ELSE n.val, rhs |-> IF victim_is_rhs THEN n.val ELSE rhs]]) ELSE same])])])])])

RECURSIVE gather_from(_, _)
\* gather_exits(): every block without a successor gets an unconditional
\* edge to the exit block.
gather_from(s, bs) == IF bs = {} THEN s ELSE Let([b \in {CHOOSE x \in bs : \A y \in bs : x <= y} |->
    gather_from(IF Len(succs_of(s, b)) = 0 THEN insert_control_edge(s, b, s.exit, UNCOND_EDGE) ELSE s, bs \ {b})])

gather_exits(s) == gather_from(s, ssa_blocks(s))

(***************************************************************************)
(* SSAConstruct, the driver.                                               *)
(***************************************************************************)
\* PhiPlacer::new and SSAConstruct::new: an empty graph, one definition map
\* for every whole register and for mem.
PlacerNew == [nodes |-> <<>>, bstart |-> <<>>, regstate |-> <<>>, edges |-> <<>>,
              selector |-> EmptyMap, bsize |-> EmptyMap, inblock |-> EmptyMap,
              entry |-> InvalidAction, exit |-> InvalidAction,
              current_def |-> [v \in VarIds |-> EmptyMap],
              incomplete_phis |-> EmptyMap, outputs |-> EmptyMap,
              blocks |-> EmptyMap, index_to_addr |-> EmptyMap,
              sealed_blocks |-> {}, unexplored_addr |-> U64Max - 1]

RECURSIVE init_registers_whole(_, _)
\* The loop of init_blocks over the whole registers alone, without mem.
init_registers_whole(s, i) == IF i >= NumWhole THEN s ELSE Let([c \in {add_comment(s, MAddr(0, 0), variable_types[i], WholeNames[i + 1])} |->
    init_registers_whole(write_variable(c.st, MAddr(0, 0), i, c.val), i + 1)])

RECURSIVE init_registers(_, _)
\* The loop of init_blocks over the whole registers, then mem.
init_registers(s, i) == IF i > MemId THEN s ELSE Let([c \in {add_comment(s, MAddr(0, 0), variable_types[i], IF i < NumWhole THEN WholeNames[i + 1] ELSE "mem")} |->
    init_registers(write_variable(c.st, MAddr(0, 0), i, c.val), i + 1)])

\* init_blocks()
init_blocks(s) == Let([b \in {add_block(s, MAddr(0, 0), <<>>, -1, {})} |->
    Let([s1 \in {init_registers([b.st EXCEPT !.entry = b.val], 0)} |->
    Let([s2 \in {sync_register_state(s1, b.val)} |->
    Let([d \in {add_dynamic(s2)} |->
    [d.st EXCEPT !.exit = d.val]])])])])

\* replace_pc, as SSAConstruct::new sets it.
replace_pc == TRUE

\* The size of every instruction, and the address of the i-th one.
OpSize == 4
InstrAddr(i) == OpSize * i

\* process_in of a register or identifier token: [st, addr, val]
process_in_reg(s, address, name, length) == IF replace_pc /\ name = PCName /\ length # -1 THEN add_const(s, address, Bits(address[1] + length), NoVt) ELSE read_register(s, address, name)

\* process_in of a constant token.
process_in_const(s, address, value) == add_const(s, address, Bits(value), NoVt)

RECURSIVE close_nesting(_, _, _)
\* The loop of run that closes the open ifs: [st, nesting]
close_nesting(s, nest, cur) == IF nest = <<>> THEN s ELSE Let([node \in {nest[Len(nest)]} |->
    Let([c \in {add_comment(s, node[2], 0, "F")} |->
    Let([b \in {add_block(c.st, cur, node[2], FALSE_EDGE, {})} |->
    close_nesting(op_use(b.st, node[1], 2, c.val), SubSeq(nest, 1, Len(nest) - 1), cur)])])])

\* The head of the loop body of run for an instruction at `offset`: the new
\* block if one is due, the fall-through edge, the closing of open ifs.
run_head(s, needs, cur, nest, offset) == Let([next_address \in {MAddr(offset, 0)} |->
    Let([s1 \in {IF needs THEN add_block(s, next_address, <<>>, -1, {}).st ELSE s} |->
    Let([s2 \in {maybe_add_edge(s1, MAddr(cur[1], 0), next_address)} |->
    close_nesting(s2, nest, next_address)])])])

\* A `c,reg,=` that writes the value read from the register back to it.
process_eq_const_self(s, address, name, value) == Let([lhs \in {process_in_reg(s, address, name, OpSize)} |->
    Let([rhs \in {process_in_const(lhs.st, lhs.addr, value)} |->
    Let([n \in {narrow_const_operand(rhs.st, rhs.addr, lhs.val, rhs.val)} |->
    Let([w \in {write_register(n.st, n.addr, name, n.lhs)} |->
    Ctx(w.st, MAddr(w.addr[1], w.addr[2] + 1), InvalidValue)])])])])

\* process_op of `=` with a register on the left and a constant on the
\* right (`c,reg,=`), and the cursor step of run after it.
process_eq_const(s, address, name, value) == Let([lhs \in {process_in_reg(s, address, name, OpSize)} |->
    Let([rhs \in {process_in_const(lhs.st, lhs.addr, value)} |->
    Let([n \in {narrow_const_operand(rhs.st, rhs.addr, lhs.val, rhs.val)} |->
    Let([w \in {write_register(n.st, n.addr, name, n.rhs)} |->
    Ctx(w.st, MAddr(w.addr[1], w.addr[2] + 1), InvalidValue)])])])])

\* The state in which process_op of `t,rip,=` calls add_block.
jump_operands(s, address, target) == Let([lhs \in {process_in_reg(s, address, PCName, OpSize)} |->
    Let([rhs \in {process_in_const(lhs.st, lhs.addr, target)} |->
    narrow_const_operand(rhs.st, rhs.addr, lhs.val, rhs.val)])])

\* process_op of `=` with the program counter on the left and a constant on
\* the right: a direct jump.
process_jump(s, address, target, pick) == Let([n \in {jump_operands(s, address, target)} |->
    Let([b \in {add_block(n.st, MAddr(target, 0), n.addr, UNCOND_EDGE, pick)} |->
    Ctx(b.st, MAddr(n.addr[1], n.addr[2] + 1), InvalidValue)])])

\* process_op of `=` with the program counter on the left and a register on
\* the right: an indirect jump.
process_indirect(s, address, name) == Let([lhs \in {process_in_reg(s, address, PCName, OpSize)} |->
    Let([rhs \in {process_in_reg(lhs.st, lhs.addr, name, OpSize)} |->
    Let([n \in {narrow_const_operand(rhs.st, rhs.addr, lhs.val, rhs.val)} |->
    Let([i \in {add_indirect_cf(n.st, n.rhs, n.addr, UNCOND_EDGE)} |->
    Ctx(i.st, MAddr(i.addr[1], i.addr[2] + 1), InvalidValue)])])])])

\* process_op of `?{` on a register: [st, addr, val, nest], nest the entry
\* pushed onto the nesting stack.
process_if(s, address, name) == Let([lhs \in {process_in_reg(s, address, name, OpSize)} |->
    Let([ite \in {add_op(lhs.st, "OpITE", 0, lhs.addr, 1)} |->
    Let([true_address \in {MAddr(ite.addr[1], ite.addr[2] + 1)} |->
    Let([b \in {add_block(ite.st, true_address, ite.addr, TRUE_EDGE, {})} |->
    Let([c \in {add_comment(b.st, ite.addr, 0, "T")} |->
    Let([s1 \in {op_use(op_use(c.st, ite.val, 0, lhs.val), ite.val, 1, c.val)} |->
    [st |-> s1, addr |-> MAddr(ite.addr[1], ite.addr[2] + 1), val |-> InvalidValue, nest |-> <<ite.val, ite.addr>>]])])])])])])

\* process_op of `}`: nothing but the cursor step of run.
process_endif(s, address) == Ctx(s, MAddr(address[1], address[2] + 1), InvalidValue)

\* process_in of an operand token: [st, addr, val].  A token is a register
\* [k |-> "reg", name |-> n] or a constant [k |-> "const", v |-> c].
process_in(s, address, tok, length) == IF tok.k = "reg" THEN process_in_reg(s, address, tok.name, length) ELSE process_in_const(s, address, tok.v)

\* The opcode of a binary token, and whether its result is one bit wide.
BinTokens == {"ECmp", "ELt", "EGt", "EAdd", "EAnd", "ELsl"}
BinOpcode(token) == CASE token = "ECmp" -> "OpSub"
                      [] token = "ELt" -> "OpLt"
                      [] token = "EGt" -> "OpGt"
                      [] token = "EAdd" -> "OpAdd"
                      [] token = "EAnd" -> "OpAnd"
                      [] token = "ELsl" -> "OpLsl"

\* The operands of a binary operation after process_in and
\* narrow_const_operand: [st, addr, lhs, rhs].
binary_operands(s, address, t0, t1) == Let([lhs \in {process_in(s, address, t0, OpSize)} |->
    Let([rhs \in {process_in(lhs.st, lhs.addr, t1, OpSize)} |->
    narrow_const_operand(rhs.st, rhs.addr, lhs.val, rhs.val)])])

\* The widen cast of process_op left out: the operation takes its two
\* operands as they are.
process_op_nocast(s, address, token, t0, t1) == Let([n \in {binary_operands(s, address, t0, t1)} |->
    Let([lhs_size \in {operand_width(n.st, n.lhs)} |->
    Let([rhs_size \in {operand_width(n.st, n.rhs)} |->
    Let([result_size \in {IF lhs_size > rhs_size THEN lhs_size ELSE rhs_size} |->
    op2(n.st, BinOpcode(token), 0, n.addr, IF token \in {"ELt", "EGt"} THEN 1 ELSE result_size, n.lhs, n.rhs)])])])])

\* process_op of a binary token (compare, arithmetic, bitwise, shift) on two
\* operand tokens: [st, addr, val], val the operation.
process_op_binary(s, address, token, t0, t1) == Let([n \in {binary_operands(s, address, t0, t1)} |->
    Let([lhs_size \in {operand_width(n.st, n.lhs)} |->
    Let([rhs_size \in {operand_width(n.st, n.rhs)} |->
    Let([result_size \in {IF lhs_size > rhs_size THEN lhs_size ELSE rhs_size} |->
    Let([vt \in {IF token \in {"ELt", "EGt"} THEN 1 ELSE result_size} |->
    IF lhs_size > rhs_size THEN Let([casted_rhs \in {op1(n.st, "OpZeroExt", lhs_size, n.addr, lhs_size, n.rhs)} |->
    op2(casted_rhs.st, BinOpcode(token), 0, casted_rhs.addr, vt, n.lhs, casted_rhs.val)]) ELSE IF lhs_size < rhs_size THEN Let([casted_lhs \in {op1(n.st, "OpZeroExt", rhs_size, n.addr, rhs_size, n.lhs)} |->
    op2(casted_lhs.st, BinOpcode(token), 0, casted_lhs.addr, vt, casted_lhs.val, n.rhs)]) ELSE op2(n.st, BinOpcode(token), 0, n.addr, vt, n.lhs, n.rhs)])])])])])

\* iter_args(): the calling-convention argument registers in order, each
\* with its index; into_iter(): every whole register with its index;
\* alias_info.get("SN"): the return register.
iter_args == <<<<0, "rdi">>>>
into_iter == [i \in 1..NumWhole |-> <<i - 1, WholeNames[i]>>]
ReturnReg == "rax"
CallTypes == {"call", "ucall", "ESIL"}

RECURSIVE call_registers_readonly(_, _, _, _, _, _)
\* A loop over cargs[k..] that reads every register and writes none.
call_registers_readonly(s, address, op_call, cargs, k, clobber) == IF k > Len(cargs) THEN Ctx(s, address, op_call) ELSE Let([rnode \in {read_register(s, address, cargs[k][2])} |->
    call_registers_readonly(op_use(rnode.st, op_call, cargs[k][1] + 1, rnode.val), rnode.addr, op_call, cargs, k + 1, clobber)])

RECURSIVE call_registers(_, _, _, _, _, _)
\* The loop of the call handling over cargs[k..]: each register is read and
\* becomes operand i + 1 of the call; without a return register it is then
\* written with a comment that has the call as operand i.
call_registers(s, address, op_call, cargs, k, clobber) == IF k > Len(cargs) THEN Ctx(s, address, op_call) ELSE Let([i \in {cargs[k][1]} |->
    Let([reg \in {cargs[k][2]} |->
    Let([rnode \in {read_register(s, address, reg)} |->
    Let([s1 \in {op_use(rnode.st, op_call, i + 1, rnode.val)} |->
    IF clobber THEN Let([c \in {add_comment(s1, rnode.addr, WholeWidths[i + 1], reg)} |->
    Let([w \in {write_register(c.st, c.addr, reg, c.val)} |->
    call_registers(op_use(w.st, c.val, i, op_call), w.addr, op_call, cargs, k + 1, clobber)])]) ELSE call_registers(s1, rnode.addr, op_call, cargs, k + 1, clobber)])])])])

\* The memory part of the call handling: mem is read as operand mem_id + 1
\* of the call and written with a comment that has the call as operand
\* mem_id.
call_memory(s, address, op_call) == Let([mem_node \in {read_variable(s, address, MemId)} |->
    Let([c \in {add_comment(op_use(mem_node.st, op_call, MemId + 1, mem_node.val), mem_node.addr, variable_types[MemId], "mem")} |->
    Ctx(op_use(write_variable(c.st, c.addr, MemId, c.val), c.val, MemId, op_call), c.addr, op_call)])])

\* The return-register part of the call handling, under a calling
\* convention: the return register is written with a comment that has the
\* call as operand 0.
call_return(s, address, op_call, reg) == Let([c \in {add_comment(s, address, WholeWidths[get_subregister(reg).base + 1], reg)} |->
    Let([w \in {write_register(c.st, c.addr, reg, c.val)} |->
    Ctx(op_use(w.st, c.val, 0, op_call), w.addr, op_call)])])

\* A call handling that hands every register to the callee, whatever the
\* calling convention says.
process_call_conservative(s, address, call_ty, assume_cc) == Let([value_type \in {IF call_ty = "call" THEN 0 ELSE WUnknown} |->
    Let([call_operand \in {add_comment(s, address, value_type, "opcode")} |->
    Let([op_call \in {add_op(call_operand.st, IF call_ty = "ESIL" THEN "OpCustom" ELSE "OpCall", 0, call_operand.addr, value_type)} |->
    Let([regs \in {call_registers(op_call.st, op_call.addr, op_call.val, into_iter, 1, TRUE)} |->
    Let([mem \in {call_memory(regs.st, regs.addr, op_call.val)} |->
    Ctx(op_use(mem.st, op_call.val, 0, call_operand.val), mem.addr, op_call.val)])])])])])

\* The call handling of run, for an instruction of type `call` or `ucall`
\* or one whose ESIL holds an unsupported token: [st, addr, val], val the
\* call value.
process_call(s, address, call_ty, assume_cc) == Let([is_real_call \in {call_ty \in {"call", "ucall"}} |->
    Let([value_type \in {IF call_ty = "call" THEN 0 ELSE WUnknown} |->
    Let([call_operand \in {add_comment(s, address, value_type, "opcode")} |->
    Let([op_call \in {add_op(call_operand.st, IF is_real_call THEN "OpCall" ELSE "OpCustom", 0, call_operand.addr, value_type)} |->
    Let([with_cc \in {assume_cc /\ is_real_call} |->
    Let([regs \in {call_registers(op_call.st, op_call.addr, op_call.val, IF with_cc THEN iter_args ELSE into_iter, 1, ~with_cc)} |->
    Let([mem \in {call_memory(regs.st, regs.addr, op_call.val)} |->
    Let([ret \in {IF with_cc THEN call_return(mem.st, mem.addr, op_call.val, ReturnReg) ELSE mem} |->
    Ctx(op_use(ret.st, op_call.val, 0, call_operand.val), ret.addr, op_call.val)])])])])])])])])

RECURSIVE finish_values_keep(_, _)
\* A loop over the values that sets the selectors but removes no ITE.
finish_values_keep(s, vs) == IF vs = {} THEN s ELSE Let([node \in {CHOOSE x \in vs : \A y \in vs : x <= y} |->
    IF ~Has(s.index_to_addr, node) THEN finish_values_keep(s, vs \ {node}) ELSE Let([block \in {block_of(s, s.index_to_addr[node])} |->
    finish_values_keep(IF IsOpc(s, node, "OpITE") /\ operands_of(s, node) # <<>> THEN [s EXCEPT !.inblock = Put(@, node, block), !.selector = Put(@, block, operands_of(s, node)[1])] ELSE [s EXCEPT !.inblock = Put(@, node, block)], vs \ {node})])])

RECURSIVE finish_values(_, _)
\* The loop of finish over the values: each value with an address goes into
\* the block of its address; an ITE gives its first operand to that block
\* as selector and is removed.
finish_values(s, vs) == IF vs = {} THEN s ELSE Let([node \in {CHOOSE x \in vs : \A y \in vs : x <= y} |->
    IF ~Has(s.index_to_addr, node) THEN finish_values(s, vs \ {node}) ELSE Let([addr \in {s.index_to_addr[node]} |->
    Let([block \in {block_of(s, addr)} |->
    Let([s1 \in {[s EXCEPT !.inblock = Put(@, node, block)]} |->
    Let([s2 \in {IF IsOpc(s1, node, "OpITE") /\ operands_of(s1, node) # <<>> THEN remove_value([s1 EXCEPT !.selector = Put(@, block, operands_of(s1, node)[1])], node) ELSE s1} |->
    finish_values(s2, vs \ {node})])])])])])

RECURSIVE finish_sizes_later(_, _, _)
\* Block sizes measured up to the later instruction of every adjacent pair.
finish_sizes_later(s, oplist, i) == IF i >= Len(oplist) THEN s ELSE Let([off1 \in {MAddr(oplist[i].offset, 0)} |->
    Let([off2 \in {MAddr(oplist[i + 1].offset, 0)} |->
    Let([b1 \in {block_of(s, off1)} |->
    Let([b2 \in {block_of(s, off2)} |->
    finish_sizes_later(IF b1 # InvalidAction /\ b2 # InvalidAction /\ b1 # b2 THEN [s EXCEPT !.bsize = Put(@, b1, off2[1] - starting_address(s, b1)[1])] ELSE s, oplist, i + 1)])])])])

RECURSIVE finish_sizes(_, _, _)
\* The loop of finish over the adjacent pairs of instructions.
finish_sizes(s, oplist, i) == IF i >= Len(oplist) THEN s ELSE Let([off1 \in {MAddr(oplist[i].offset, 0)} |->
    Let([off2 \in {MAddr(oplist[i + 1].offset, 0)} |->
    Let([b1 \in {block_of(s, off1)} |->
    Let([b2 \in {block_of(s, off2)} |->
    finish_sizes(IF b1 # InvalidAction /\ b2 # InvalidAction /\ b1 # b2 THEN [s EXCEPT !.bsize = Put(@, b1, off1[1] - starting_address(s, b1)[1])] ELSE s, oplist, i + 1)])])])])

(***************************************************************************)
(* The state machine: run() over an instruction list that grows one        *)
(* instruction at a time, then gather_exits() and finish().                *)
(***************************************************************************)
\* The constant of `c,reg,=`.
MovValue == 5
\* The jump targets: the entry address, every instruction, and one past.
Targets == {0} \cup {InstrAddr(i) : i \in 1..(MaxInstr + 1)}

Init == /\ pp = PlacerNew
        /\ nesting = <<>>
        /\ needs_new_block = TRUE
        /\ current_address = MAddr(0, 0)
        /\ ops = <<>>
        /\ pc = "init"
        /\ wl = <<>>
        /\ parser = ParserInit
        /\ files = {}
        /\ seen = {}
        /\ wasted_cycles = 0
        /\ cin = <<>>
        /\ cout = InvalidValue
        /\ rin = <<>>
        /\ rout = <<>>

Idle == UNCHANGED <<wl, seen, wasted_cycles, cin, cout, rin, rout, parser, files>>

\* run(), up to its loop.
InitBlocks == /\ pc = "init"
              /\ pp' = init_blocks(pp)
              /\ pc' = "run"
              /\ UNCHANGED <<nesting, needs_new_block, current_address, ops>>
              /\ Idle

NextOffset == InstrAddr(Len(ops) + 1)
Head0 == run_head(pp, needs_new_block, current_address, nesting, NextOffset)
CanStep == pc = "run" /\ Len(ops) < MaxInstr
Done(r, kind, arg, needs, nest) == /\ pp' = r.st
                                   /\ current_address' = r.addr
                                   /\ nesting' = nest
                                   /\ needs_new_block' = needs
                                   /\ ops' = Append(ops, [offset |-> NextOffset, kind |-> kind, arg |-> arg])
                                   /\ pc' = pc
                                   /\ Idle

\* An instruction `c,rax,=`.
StepMov == /\ CanStep
           /\ Done(process_eq_const(Head0, MAddr(NextOffset, 0), "rax", MovValue), "mov", 0, FALSE, <<>>)

\* An instruction `t,rip,=`.
StepJump == /\ CanStep
            /\ \E t \in Targets : \E pick \in SUBSET split_candidates(jump_operands(Head0, MAddr(NextOffset, 0), t).st, MAddr(t, 0), MAddr(NextOffset, 0)) :
                 Done(process_jump(Head0, MAddr(NextOffset, 0), t, pick), "jmp", t, TRUE, <<>>)

\* An instruction `rax,rip,=`.
StepIndirect == /\ CanStep
                /\ Done(process_indirect(Head0, MAddr(NextOffset, 0), "rax"), "ijmp", 0, TRUE, <<>>)

\* An instruction `zf,?{,t,rip,=,}`.
StepCondJump == /\ CanStep
                /\ LET i == process_if(Head0, MAddr(NextOffset, 0), "zf") IN
                     \E t \in Targets : \E pick \in SUBSET split_candidates(jump_operands(i.st, i.addr, t).st, MAddr(t, 0), i.addr) :
                        LET j == process_jump(i.st, i.addr, t, pick) IN
                          Done(process_endif(j.st, j.addr), "cjmp", t, TRUE, <<i.nest>>)

\* An instruction `zf,?{,c,rax,=,}`.
StepCondMov == /\ CanStep
               /\ LET i == process_if(Head0, MAddr(NextOffset, 0), "zf")
                      m == process_eq_const(i.st, i.addr, "rax", MovValue)
                  IN Done(process_endif(m.st, m.addr), "cmov", 0, FALSE, <<i.nest>>)

\* An instruction of type `ret`.
StepRet == /\ CanStep
           /\ Done(Ctx(add_return(Head0, MAddr(NextOffset, 0), UNCOND_EDGE), MAddr(NextOffset, 0), InvalidValue), "ret", 0, TRUE, <<>>)

\* The end of the loop of run(): gather_exits(), and finish() up to its
\* sealing loop.
EndRun == /\ pc = "run"
          /\ pp' = gather_exits(pp)
          /\ wl' = <<pp.entry>>
          /\ seen' = {}
          /\ wasted_cycles' = 0
          /\ pc' = "seal"
          /\ UNCHANGED <<nesting, needs_new_block, current_address, ops, cin, cout, rin, rout, parser, files>>

\* A worklist test that lets every block through.
preds_sealed_always(s, current) == TRUE

\* The test of the sealing loop: every predecessor of `current` other than
\* `current` itself is sealed.
preds_sealed(s, current) == \A x \in SeqSet(preds_of(s, current)) \ {current} : x \in s.sealed_blocks

\* One iteration of the sealing loop of finish().
SealStep == /\ pc = "seal"
            /\ wl # <<>>
            /\ ~(wasted_cycles > Len(wl))
            /\ LET current == Head(wl)
                   ready == preds_sealed(pp, current)
                   seals == ready /\ current \notin pp.sealed_blocks
                   wl1 == IF current \notin seen THEN Tail(wl) \o succs_of(pp, current) ELSE Tail(wl)
               IN /\ pp' = IF seals THEN seal_block(pp, current) ELSE pp
                  /\ wasted_cycles' = IF seals THEN 0 ELSE IF ready THEN wasted_cycles ELSE wasted_cycles + 1
                  /\ seen' = seen \cup {current}
                  /\ wl' = IF ready THEN wl1 ELSE Append(wl1, current)
            /\ UNCHANGED <<nesting, needs_new_block, current_address, ops, pc, cin, cout, rin, rout, parser, files>>

\* The sealing loop ends: the worklist is empty, or too many cycles were
\* wasted.
SealBreak == /\ pc = "seal"
             /\ (wl = <<>> \/ wasted_cycles > Len(wl))
             /\ pc' = "force"
             /\ UNCHANGED <<pp, nesting, needs_new_block, current_address, ops, wl, seen, wasted_cycles, cin, cout, rin, rout, parser, files>>

\* One iteration of `for block in wl { seal_block(block) }`.
ForceSeal == /\ pc = "force"
             /\ wl # <<>>
             /\ pp' = seal_block(pp, Head(wl))
             /\ wl' = Tail(wl)
             /\ UNCHANGED <<nesting, needs_new_block, current_address, ops, pc, seen, wasted_cycles, cin, cout, rin, rout, parser, files>>

\* The rest of finish(): blocks of the values, selectors, block sizes.
Finalize == /\ pc = "force"
            /\ wl = <<>>
            /\ pp' = finish_sizes(finish_values(pp, ssa_values(pp)), ops, 1)
            /\ pc' = "done"
            /\ UNCHANGED <<nesting, needs_new_block, current_address, ops, wl, seen, wasted_cycles, cin, cout, rin, rout, parser, files>>

Next == \/ InitBlocks
        \/ StepMov
        \/ StepJump
        \/ StepIndirect
        \/ StepCondJump
        \/ StepCondMov
        \/ StepRet
        \/ EndRun
        \/ SealStep
        \/ SealBreak
        \/ ForceSeal
        \/ Finalize

Spec == Init /\ [][Next]_vars

(***************************************************************************)
(* add_const on its own: one call, from the graph init_blocks leaves, for  *)
(* every value, declared type and cursor of a bounded family.              *)
(***************************************************************************)
BaseGraph == init_blocks(PlacerNew)
ConstValues == {{}, {0}, {0, 2}, {7}, {0, 1, 2, 3, 4, 5, 6, 7}, {8}, {31, 32}, {63}, BitPos}
ConstWidths == {NoVt, WUnknown, 1, 2, 8, 16, 32, 63, 64, 65, 128}
ConstAddrs == {MAddr(OpSize, 0), MAddr(OpSize, 3)}

ConstInit == /\ cin \in [value : ConstValues, vt : ConstWidths]
             /\ current_address \in ConstAddrs
             /\ pp = BaseGraph
             /\ cout = InvalidValue
             /\ pc = "const"
             /\ nesting = <<>>
             /\ needs_new_block = TRUE
             /\ ops = <<>>
             /\ wl = <<>>
             /\ parser = ParserInit
             /\ files = {}
             /\ seen = {}
             /\ wasted_cycles = 0
             /\ rin = <<>>
             /\ rout = <<>>

\* One call add_const(&mut current_address, value, vt).
AddConst == /\ pc = "const"
            /\ LET r == add_const(pp, current_address, cin.value, cin.vt) IN /\ pp' = r.st
                                                                              /\ current_address' = r.addr
                                                                              /\ cout' = r.val
            /\ pc' = "const_done"
            /\ UNCHANGED <<nesting, needs_new_block, ops, wl, seen, wasted_cycles, cin, rin, rout, parser, files>>

ConstNext == AddConst

ConstSpec == ConstInit /\ [][ConstNext]_vars

(***************************************************************************)
(* write_register and read_register on their own: in the first block of a  *)
(* function, the whole register R holds `old`; a value v is written to a   *)
(* register s over R, then s and R are read.                               *)
(***************************************************************************)
RegValues == {{0, 2}, {0, 1, 2, 3, 4, 5, 6, 7}, {0, 8}, {31, 32}, BitPos}
OldValues == {{}, {1, 9, 40}, BitPos}
WholeOf(reg) == WholeNames[SubRegs[reg].base + 1]

\* The graph in which R holds `old` and the constant v exists: [st, addr, val].
RegStart(reg, v, old) == Let([b \in {add_block(BaseGraph, MAddr(OpSize, 0), <<>>, -1, {}).st} |->
    Let([e \in {maybe_add_edge(b, MAddr(0, 0), MAddr(OpSize, 0))} |->
    Let([c \in {add_const(e, MAddr(OpSize, 0), old, NoVt)} |->
    Let([w \in {write_register(c.st, c.addr, WholeOf(reg), c.val)} |->
    add_const(w.st, MAddr(w.addr[1], w.addr[2] + 1), v, NoVt)])])])])

RegInit == /\ rin \in [reg : RegNames, v : RegValues, old : OldValues]
           /\ pp = RegStart(rin.reg, rin.v, rin.old).st
           /\ current_address = RegStart(rin.reg, rin.v, rin.old).addr
           /\ rout = [value |-> RegStart(rin.reg, rin.v, rin.old).val, sub |-> InvalidValue, whole |-> InvalidValue]
           /\ pc = "reg"
           /\ nesting = <<>>
           /\ needs_new_block = FALSE
           /\ ops = <<>>
           /\ wl = <<>>
           /\ parser = ParserInit
           /\ files = {}
           /\ seen = {}
           /\ wasted_cycles = 0
           /\ cin = <<>>
           /\ cout = InvalidValue

\* write_register(&mut current_address, s, v)
WriteReg == /\ pc = "reg"
            /\ LET w == write_register(pp, current_address, rin.reg, rout.value) IN /\ pp' = w.st
                                                                                     /\ current_address' = w.addr
            /\ pc' = "reg_written"
            /\ UNCHANGED <<nesting, needs_new_block, ops, wl, seen, wasted_cycles, cin, cout, rin, rout, parser, files>>

\* read_register(&mut current_address, s), then read_register of R.
ReadReg == /\ pc = "reg_written"
           /\ LET r == read_register(pp, current_address, rin.reg)
                  w == read_register(r.st, r.addr, WholeOf(rin.reg))
              IN /\ pp' = w.st
                 /\ current_address' = w.addr
                 /\ rout' = [rout EXCEPT !.sub = r.val, !.whole = w.val]
           /\ pc' = "reg_read"
           /\ UNCHANGED <<nesting, needs_new_block, ops, wl, seen, wasted_cycles, cin, cout, rin, parser, files>>

RegNext == \/ WriteReg
           \/ ReadReg

RegSpec == RegInit /\ [][RegNext]_vars

RECURSIVE Eval(_, _)
\* The 64-bit value an operation denotes, its operations read as functions
\* of bit vectors.
Eval(s, v) == Let([n \in {s.nodes[v]} |->
    Let([a \in {IF Len(n.args) >= 1 /\ n.args[1] # 0 THEN Eval(s, n.args[1]) ELSE {}} |->
    Let([b \in {IF Len(n.args) >= 2 /\ n.args[2] # 0 THEN Eval(s, n.args[2]) ELSE {}} |->
    IF n.nt = "Const" THEN n.cv
                 ELSE IF n.nt # "Op" THEN {}
                 ELSE IF n.opc = "OpNarrow" THEN a \cap LowMask(n.par)
                 ELSE IF n.opc \in {"OpMov", "OpZeroExt"} THEN a
                 ELSE IF n.opc = "OpLsl" THEN BvShl(a, ToNat(b), CanonWidth)
                 ELSE IF n.opc = "OpLsr" THEN BvShr(a, ToNat(b))
                 ELSE IF n.opc = "OpAnd" THEN a \cap b
                 ELSE IF n.opc = "OpOr" THEN a \cup b
                 ELSE {}])])])

(***************************************************************************)
(* process_op of a binary token on its own: the first instruction of a     *)
(* function is `a,b,op` for two operand tokens and a binary token.         *)
(***************************************************************************)
OperandTokens == {[k |-> "reg", name |-> n] : n \in RegNames} \cup {[k |-> "const", v |-> MovValue]}

BinInit == /\ cin \in [token : BinTokens, lhs : OperandTokens, rhs : OperandTokens]
           /\ pp = run_head(BaseGraph, TRUE, MAddr(0, 0), <<>>, OpSize)
           /\ current_address = MAddr(OpSize, 0)
           /\ cout = InvalidValue
           /\ pc = "bin"
           /\ nesting = <<>>
           /\ needs_new_block = FALSE
           /\ ops = <<>>
           /\ wl = <<>>
           /\ parser = ParserInit
           /\ files = {}
           /\ seen = {}
           /\ wasted_cycles = 0
           /\ rin = <<>>
           /\ rout = <<>>

\* One call process_op(token, &mut current_address, [lhs, rhs], size).
ProcessBinary == /\ pc = "bin"
                 /\ \E r \in {process_op_binary(pp, current_address, cin.token, cin.lhs, cin.rhs)} :
                       /\ pp' = r.st
                       /\ current_address' = r.addr
                       /\ cout' = r.val
                 /\ pc' = "bin_done"
                 /\ UNCHANGED <<nesting, needs_new_block, ops, wl, seen, wasted_cycles, cin, rin, rout, parser, files>>

BinNext == ProcessBinary

BinSpec == BinInit /\ [][BinNext]_vars

(***************************************************************************)
(* run() over instruction lists with calls: moves, direct jumps and calls, *)
(* with and without the calling-convention assumption.                     *)
(***************************************************************************)
CallInit == /\ cin \in [assume_cc : BOOLEAN]
            /\ pp = BaseGraph
            /\ nesting = <<>>
            /\ needs_new_block = TRUE
            /\ current_address = MAddr(0, 0)
            /\ ops = <<>>
            /\ pc = "run"
            /\ wl = <<>>
            /\ parser = ParserInit
            /\ files = {}
            /\ seen = {}
            /\ wasted_cycles = 0
            /\ cout = InvalidValue
            /\ rin = <<>>
            /\ rout = <<>>

\* An instruction of type `call` or `ucall`, or one with an unsupported
\* token; cout is the call value.
StepCall == /\ CanStep
            /\ \E ty \in CallTypes : \E r \in {process_call(Head0, MAddr(NextOffset, 0), ty, cin.assume_cc)} :
                 /\ pp' = r.st
                 /\ current_address' = r.addr
                 /\ cout' = r.val
                 /\ ops' = Append(ops, [offset |-> NextOffset, kind |-> ty, arg |-> 0])
            /\ nesting' = <<>>
            /\ needs_new_block' = FALSE
            /\ UNCHANGED <<pc, wl, seen, wasted_cycles, cin, rin, rout, parser, files>>

CallNext == \/ StepMov
            \/ StepJump
            \/ StepCall

CallSpec == CallInit /\ [][CallNext]_vars

(***************************************************************************)
(* run() over instruction lists with indirect jumps and direct jumps to    *)
(* the highest addresses.                                                  *)
(***************************************************************************)
\* The highest addresses below that of the exit block.
HighTargets == {U64Max - k : k \in 1..3}

\* run() at the top of its loop, after init_blocks.
RunInit == /\ pp = BaseGraph
                /\ nesting = <<>>
                /\ needs_new_block = TRUE
                /\ current_address = MAddr(0, 0)
                /\ ops = <<>>
                /\ pc = "run"
                /\ wl = <<>>
                /\ parser = ParserInit
                /\ files = {}
                /\ seen = {}
                /\ wasted_cycles = 0
                /\ cin = <<>>
                /\ cout = InvalidValue
                /\ rin = <<>>
                /\ rout = <<>>

\* An instruction `t,rip,=` with t one of the highest addresses.
StepHighJump == /\ CanStep
                /\ \E t \in HighTargets : \E pick \in SUBSET split_candidates(jump_operands(Head0, MAddr(NextOffset, 0), t).st, MAddr(t, 0), MAddr(NextOffset, 0)) :
                     Done(process_jump(Head0, MAddr(NextOffset, 0), t, pick), "jmp", t, TRUE, <<>>)

IndirectNext == \/ StepMov
                \/ StepIndirect
                \/ StepHighJump

IndirectSpec == RunInit /\ [][IndirectNext]_vars

(***************************************************************************)
(* The token loop of run(): the driver asks the RTL parser for the tokens  *)
(* of an instruction one at a time.  The parser is not part of the         *)
(* program: a token is `eq` (the operator of `c,rax,=`, which parses and   *)
(* has its operands), `invalid` (parse returns Err) or `starved` (parse    *)
(* returns the token, fetch_operands returns Err).  What the parser holds   *)
(* after parse returned Err is any of: the same tokens, the tokens after   *)
(* the invalid one, none.                                                  *)
(***************************************************************************)
TokenKinds == {"eq", "invalid", "starved"}
\* Number of tokens of an instruction.
MaxTokens == 2
TokenLists == UNION {[1..n -> TokenKinds] : n \in 1..MaxTokens}

\* The loop body of run() up to the token loop, for an instruction with the
\* tokens `toks`.
BeginInstr == /\ CanStep
              /\ \E toks \in TokenLists : ops' = Append(ops, [offset |-> NextOffset, kind |-> "esil", arg |-> toks])
              /\ pp' = Head0
              /\ current_address' = MAddr(NextOffset, 0)
              /\ nesting' = <<>>
              /\ needs_new_block' = FALSE
              /\ pc' = "parse"
              /\ Idle

\* The tokens p.parse(esil_str) works on: those the parser holds, or those
\* of the instruction when it holds none.
Held == IF parser.live THEN parser.tokens ELSE ops[Len(ops)].arg

\* p.parse returns a token, fetch_operands its operands: process_op, and
\* the cursor step.
ParseToken == /\ pc = "parse" /\ Held # <<>> /\ Head(Held) = "eq"
              /\ \E r \in {process_eq_const(pp, current_address, "rax", MovValue)} : pp' = r.st /\ current_address' = r.addr
              /\ parser' = [live |-> TRUE, tokens |-> Tail(Held), failed |-> FALSE]
              /\ UNCHANGED <<nesting, needs_new_block, ops, pc, wl, seen, wasted_cycles, cin, cout, rin, rout, files>>

\* p.parse returns Err: `continue`, in the token loop.
ParseError == /\ pc = "parse" /\ Held # <<>> /\ Head(Held) = "invalid"
              /\ \E rest \in {Held, Tail(Held), <<>>} : parser' = [live |-> TRUE, tokens |-> rest, failed |-> TRUE]
              /\ UNCHANGED <<pp, nesting, needs_new_block, current_address, ops, pc, wl, seen, wasted_cycles, cin, cout, rin, rout, files>>

\* p.parse returns a token, fetch_operands returns Err: `continue`, in the
\* token loop.
FetchError == /\ pc = "parse" /\ Held # <<>> /\ Head(Held) = "starved"
              /\ parser' = [live |-> TRUE, tokens |-> Tail(Held), failed |-> TRUE]
              /\ UNCHANGED <<pp, nesting, needs_new_block, current_address, ops, pc, wl, seen, wasted_cycles, cin, cout, rin, rout, files>>

\* p.parse returns Ok(None): `break`, on to the next instruction.
ParseEnd == /\ pc = "parse" /\ Held = <<>>
            /\ parser' = ParserInit
            /\ pc' = "run"
            /\ UNCHANGED <<pp, nesting, needs_new_block, current_address, ops, wl, seen, wasted_cycles, cin, cout, rin, rout, files>>

\* The blocks of these runs form a chain: the sealing loop of finish() ends
\* with an empty worklist, and the loop over what is left of it has no
\* iteration.
ParseNext == \/ BeginInstr
             \/ ParseToken
             \/ ParseError
             \/ FetchError
             \/ ParseEnd
             \/ EndRun
             \/ SealStep
             \/ SealBreak
             \/ Finalize

ParseSpec == RunInit /\ [][ParseNext]_vars

(***************************************************************************)
(* write_register and read_register of a name the register file does not  *)
(* know, from the graphs of RegStart.                                      *)
(***************************************************************************)
\* Names get_subregister has no entry for.
UnknownNames == {"xmm0", "st0"}

UnknownInit == /\ rin \in [reg : UnknownNames, known : RegNames, v : RegValues, old : OldValues]
               /\ pp = RegStart(rin.known, rin.v, rin.old).st
               /\ current_address = RegStart(rin.known, rin.v, rin.old).addr
               /\ rout = [value |-> RegStart(rin.known, rin.v, rin.old).val, sub |-> InvalidValue, whole |-> InvalidValue]
               /\ pc = "unknown"
               /\ nesting = <<>>
               /\ needs_new_block = FALSE
               /\ ops = <<>>
               /\ wl = <<>>
               /\ parser = ParserInit
               /\ files = {}
               /\ seen = {}
               /\ wasted_cycles = 0
               /\ cin = <<>>
               /\ cout = InvalidValue

\* write_register(&mut current_address, name, v)
WriteUnknown == /\ pc \in {"unknown", "unknown_read"}
                /\ \E w \in {write_register(pp, current_address, rin.reg, rout.value)} : pp' = w.st /\ current_address' = w.addr
                /\ pc' = IF pc = "unknown" THEN "unknown_written" ELSE "unknown_done"
                /\ UNCHANGED <<nesting, needs_new_block, ops, wl, seen, wasted_cycles, cin, cout, rin, rout, parser, files>>

\* read_register(&mut current_address, name)
ReadUnknown == /\ pc \in {"unknown", "unknown_written"}
               /\ \E r \in {read_register(pp, current_address, rin.reg)} : pp' = r.st /\ current_address' = r.addr /\ rout' = [rout EXCEPT !.sub = r.val]
               /\ pc' = IF pc = "unknown" THEN "unknown_read" ELSE "unknown_done"
               /\ UNCHANGED <<nesting, needs_new_block, ops, wl, seen, wasted_cycles, cin, cout, rin, parser, files>>

UnknownNext == \/ WriteUnknown
               \/ ReadUnknown

UnknownSpec == UnknownInit /\ [][UnknownNext]_vars

(***************************************************************************)
(* The file-backed source: FileSource and its conversion from a live       *)
(* source.  A file is named by the suffix handed to read_file/write_file;  *)
(* both build the path `<dir>/<base>_<suffix>.json` from the same dir and  *)
(* base_name of the one FileSource value, so the suffix alone tells two    *)
(* paths apart.  A suffix is kept as the list of its pieces.               *)
(***************************************************************************)
\* mod suffix (field names in lower case).
suffix == [function |-> "function", function_info |-> "fn_info", instructions |-> "insts",
           register |-> "register_profile", flag |-> "flags", section |-> "sections",
           string |-> "strings", symbol |-> "symbols", import |-> "imports",
           export |-> "exports", reloc |-> "relocs", library |-> "libraries",
           local |-> "locals", ccinfo |-> "ccinfo", entry |-> "entrypoint"]

HexDigits == <<"0", "1", "2", "3", "4", "5", "6", "7", "8", "9", "A", "B", "C", "D", "E", "F">>

RECURSIVE Digits(_, _)
\* The digits of an unsigned integer in a radix, most significant first.
Digits(n, radix) == IF n < radix THEN <<HexDigits[n + 1]>>
                    ELSE Digits(n \div radix, radix) \o <<HexDigits[(n % radix) + 1]>>

\* format!("{}_{:#X}", s, address)
fmt_upper_hex(s, address) == <<s, "_", "0x">> \o Digits(address, 16)
\* format!("{}_{}", s, start_addr)
fmt_display(s, start_addr) == <<s, "_">> \o Digits(start_addr, 10)
\* format!("{}_{}", suffix::FUNCTION, name)
fmt_name(s, name) == <<s, "_", name>>

\* The functions a live source may report (FunctionInfo: offset and name).
FnPool == {[offset |-> 10, name |-> "main"], [offset |-> 16, name |-> "sym.f"], [offset |-> 171, name |-> "entry0"]}
FnLists == {<<>>} \cup {<<f>> : f \in FnPool} \cup {<<f, g>> : f \in FnPool, g \in FnPool}

\* impl Source for FileSource: the suffix each capability reads.
Capabilities == {"functions", "register_profile", "flags", "sections", "symbols", "imports", "exports",
                 "relocs", "libraries", "entrypoint", "strings"}
FnCapabilities == {"instructions_at", "disassemble_function", "locals_of", "cc_info_of"}
read_suffix(cap, f) ==
    CASE cap = "functions" -> <<suffix.function_info>>
      [] cap = "instructions_at" -> fmt_upper_hex(suffix.instructions, f.offset)
      [] cap = "register_profile" -> <<suffix.register>>
      [] cap = "flags" -> <<suffix.flag>>
      [] cap = "sections" -> <<suffix.section>>
      [] cap = "symbols" -> <<suffix.symbol>>
      [] cap = "imports" -> <<suffix.import>>
      [] cap = "exports" -> <<suffix.export>>
      [] cap = "relocs" -> <<suffix.reloc>>
      [] cap = "libraries" -> <<suffix.library>>
      [] cap = "entrypoint" -> <<suffix.entry>>
      [] cap = "disassemble_function" -> fmt_name(suffix.function, f.name)
      [] cap = "locals_of" -> fmt_display(suffix.local, f.offset)
      [] cap = "cc_info_of" -> fmt_display(suffix.ccinfo, f.offset)
      [] cap = "strings" -> <<suffix.string>>

\* From<WrappedR2Api<R>>: the four files written for one function of the loop.
function_files(f) == {fmt_upper_hex(suffix.instructions, f.offset), fmt_name(suffix.function, f.name),
                      fmt_display(suffix.local, f.offset), fmt_display(suffix.ccinfo, f.offset)}
\* From<WrappedR2Api<R>>: the files written after the loop (the block writing
\* suffix::EXPORT is commented out in the source).
table_files == {<<suffix.register>>, <<suffix.flag>>, <<suffix.section>>, <<suffix.string>>,
                <<suffix.import>>, <<suffix.reloc>>, <<suffix.library>>, <<suffix.entry>>}

\* cin: the functions of the live source; rin: the functions the loop has
\* still to write; rout: the last read of the FileSource.
FileInit == /\ cin \in FnLists
            /\ pc = "convert"
            /\ files = {}
            /\ rin = <<>>
            /\ rout = <<>>
            /\ pp = PlacerNew
            /\ nesting = <<>>
            /\ needs_new_block = FALSE
            /\ current_address = MAddr(0, 0)
            /\ ops = <<>>
            /\ wl = <<>>
            /\ parser = ParserInit
            /\ seen = {}
            /\ wasted_cycles = 0
            /\ cout = InvalidValue

\* from(), the write of suffix::FUNCTION_INFO.
WriteFnInfo == /\ pc = "convert"
               /\ files' = files \cup {<<suffix.function_info>>}
               /\ rin' = cin
               /\ pc' = "functions"
               /\ UNCHANGED <<pp, nesting, needs_new_block, current_address, ops, wl, seen, wasted_cycles, cin, cout, rout, parser>>

\* from(), one turn of `for f in fns`.
WriteFunction == /\ pc = "functions"
                 /\ rin # <<>>
                 /\ files' = files \cup function_files(Head(rin))
                 /\ rin' = Tail(rin)
                 /\ UNCHANGED <<pp, nesting, needs_new_block, current_address, ops, pc, wl, seen, wasted_cycles, cin, cout, rout, parser>>

\* from(), after the loop to the returned FileSource.
WriteTables == /\ pc = "functions"
               /\ rin = <<>>
               /\ files' = files \cup table_files
               /\ pc' = "converted"
               /\ UNCHANGED <<pp, nesting, needs_new_block, current_address, ops, wl, seen, wasted_cycles, cin, cout, rin, rout, parser>>

\* A capability of the returned FileSource: read_file(suffix) is Ok exactly
\* when the file exists.  Per-function capabilities are asked for the
\* functions the source reported.
ReadCapability == /\ pc \in {"converted", "read"}
                  /\ \/ \E cap \in Capabilities :
                          rout' = [cap |-> cap, file |-> read_suffix(cap, <<>>), ok |-> read_suffix(cap, <<>>) \in files]
                     \/ \E cap \in FnCapabilities, i \in 1..Len(cin) :
                          rout' = [cap |-> cap, file |-> read_suffix(cap, cin[i]), ok |-> read_suffix(cap, cin[i]) \in files]
                  /\ pc' = "read"
                  /\ UNCHANGED <<pp, nesting, needs_new_block, current_address, ops, wl, seen, wasted_cycles, cin, cout, rin, parser, files>>

FileNext == \/ WriteFnInfo
            \/ WriteFunction
            \/ WriteTables
            \/ ReadCapability

FileSpec == FileInit /\ [][FileNext]_vars

(***************************************************************************)
(* read_variable on the placer of a run: after some instructions the       *)
(* variable is read at an address of one of them.                          *)
(***************************************************************************)
\* The offsets within an instruction at which the read is made.
ReadSubs == {0, OpSize}

\* read_variable(&mut address, variable)
ReadVariable == /\ pc = "run"
                /\ \E i \in 1..Len(ops), k \in ReadSubs, variable \in VarIds :
                     \E r \in {read_variable(pp, MAddr(ops[i].offset, k), variable)} :
                        /\ pp' = r.st
                        /\ rout' = [address |-> MAddr(ops[i].offset, k), variable |-> variable, val |-> r.val]
                /\ pc' = "read"
                /\ UNCHANGED <<nesting, needs_new_block, current_address, ops, wl, seen, wasted_cycles, cin, cout, rin, parser, files>>

ReadNext == \/ StepMov
            \/ StepJump
            \/ ReadVariable

ReadSpec == RunInit /\ [][ReadNext]_vars

(***************************************************************************)
(* run() over moves, additions of a register to itself and direct jumps:   *)
(* a backward jump into a block splits it, and the split re-resolves both  *)
(* operands of an addition in the lower part.                              *)
(***************************************************************************)
\* An instruction `rax,rax,+`.
StepAdd == /\ CanStep
           /\ Done(process_op_binary(Head0, MAddr(NextOffset, 0), "EAdd", [k |-> "reg", name |-> "rax"], [k |-> "reg", name |-> "rax"]), "add", 0, FALSE, <<>>)

SplitNext == \/ StepMov
             \/ StepAdd
             \/ StepJump

SplitSpec == RunInit /\ [][SplitNext]_vars

(***************************************************************************)
(* try_remove_trivial_phi as add_phi_operands calls it: a phi of an        *)
(* unsealed block that has been given its operands, and a second phi that  *)
(* may use the first.  The operands are drawn from the phi itself, two     *)
(* other values and the second phi.                                        *)
(***************************************************************************)
MaxPhiOperands == 3
MaxUserOperands == 2
PhiOperandLists == UNION {[1..n -> {"phi", "same", "other", "user"}] : n \in 0..MaxPhiOperands}
UserOperandLists == UNION {[1..n -> {"phi", "same", "other"}] : n \in 0..MaxUserOperands}

RECURSIVE phi_uses(_, _, _)
\* phi_use(phi, v) for every v of vals in turn (the loop of add_phi_operands).
phi_uses(s, phi, vals) == IF vals = <<>> THEN s ELSE phi_uses(phi_use(s, phi, Head(vals)), phi, Tail(vals))

\* The two phis: incomplete phis of rdi and of rflags in the first block of
\* the run; [st, phi, user].
TrivialPhis == Let([s0 \in {run_head(BaseGraph, TRUE, MAddr(0, 0), <<>>, OpSize)} |->
    Let([p \in {read_variable_recursive(s0, get_subregister("rdi").base, MAddr(OpSize, 0))} |->
    Let([q \in {read_variable_recursive(p.st, get_subregister("rflags").base, p.addr)} |->
    [st |-> q.st, phi |-> p.val, user |-> q.val]])])])
\* The value an operand name stands for: the entry definitions of rdi and
\* of rax are the two other values.
TrivialValue(name) == CASE name = "phi" -> TrivialPhis.phi
                        [] name = "user" -> TrivialPhis.user
                        [] name = "same" -> current_def_in_block(BaseGraph, get_subregister("rdi").base, MAddr(0, 0))
                        [] name = "other" -> current_def_in_block(BaseGraph, get_subregister("rax").base, MAddr(0, 0))
TrivialValues(names) == [i \in 1..Len(names) |-> TrivialValue(names[i])]

TrivialInit == /\ rin \in [operands : PhiOperandLists, user : UserOperandLists]
               /\ pp = phi_uses(phi_uses(TrivialPhis.st, TrivialPhis.user, TrivialValues(rin.user)), TrivialPhis.phi, TrivialValues(rin.operands))
               /\ cout = TrivialPhis.phi
               /\ rout = [val |-> InvalidValue]
               /\ pc = "phi"
               /\ current_address = MAddr(OpSize, 0)
               /\ nesting = <<>>
               /\ needs_new_block = FALSE
               /\ ops = <<>>
               /\ wl = <<>>
               /\ parser = ParserInit
               /\ files = {}
               /\ seen = {}
               /\ wasted_cycles = 0
               /\ cin = <<>>

\* try_remove_trivial_phi(phi)
TryRemove == /\ pc = "phi"
             /\ \E r \in {try_remove_trivial_phi(pp, cout)} : pp' = r.st /\ rout' = [val |-> r.val]
             /\ pc' = "removed"
             /\ UNCHANGED <<nesting, needs_new_block, current_address, ops, wl, seen, wasted_cycles, cin, cout, rin, parser, files>>

TrivialNext == TryRemove

TrivialSpec == TrivialInit /\ [][TrivialNext]_vars

(***************************************************************************)
(* narrow_const_operand on the two operands process_op hands it: each is   *)
(* absent, a register read or a constant.                                  *)
(***************************************************************************)
NoOperand == [k |-> "none"]
NarrowTokens == OperandTokens \cup {NoOperand}

\* process_in of an operand that may be absent: [st, addr, val], val 0 for
\* None.
process_in_opt(s, address, tok) == IF tok = NoOperand THEN Ctx(s, address, 0) ELSE process_in(s, address, tok, OpSize)
\* The two operands in the first block of the run: [st, addr, lhs, rhs].
NarrowStart(t0, t1) == Let([s0 \in {run_head(BaseGraph, TRUE, MAddr(0, 0), <<>>, OpSize)} |->
    Let([l \in {process_in_opt(s0, MAddr(OpSize, 0), t0)} |->
    Let([r \in {process_in_opt(l.st, l.addr, t1)} |->
    [st |-> r.st, addr |-> r.addr, lhs |-> l.val, rhs |-> r.val]])])])

NarrowInit == /\ cin \in [lhs : NarrowTokens, rhs : NarrowTokens]
              /\ pp = NarrowStart(cin.lhs, cin.rhs).st
              /\ current_address = NarrowStart(cin.lhs, cin.rhs).addr
              /\ rout = [lhs |-> NarrowStart(cin.lhs, cin.rhs).lhs, rhs |-> NarrowStart(cin.lhs, cin.rhs).rhs]
              /\ pc = "narrow"
              /\ nesting = <<>>
              /\ needs_new_block = FALSE
              /\ ops = <<>>
              /\ wl = <<>>
              /\ parser = ParserInit
              /\ files = {}
              /\ seen = {}
              /\ wasted_cycles = 0
              /\ cout = InvalidValue
              /\ rin = <<>>

\* narrow_const_operand(&mut address, &mut lhs, &mut rhs)
NarrowOperands == /\ pc = "narrow"
                  /\ \E n \in {narrow_const_operand(pp, current_address, rout.lhs, rout.rhs)} :
                        /\ pp' = n.st
                        /\ current_address' = n.addr
                        /\ rout' = [lhs |-> n.lhs, rhs |-> n.rhs]
                  /\ pc' = "narrowed"
                  /\ UNCHANGED <<nesting, needs_new_block, ops, wl, seen, wasted_cycles, cin, cout, rin, parser, files>>

NarrowNext == NarrowOperands

NarrowSpec == NarrowInit /\ [][NarrowNext]_vars

(***************************************************************************)
(* The memory operations of process_op in a run: `rax,rdi,=[8]` stores rax  *)
(* at the address in rdi, `rdi,[8]` loads from the address in rdi; direct   *)
(* jumps end and split the blocks between them.                             *)
(***************************************************************************)
\* A Poke that leaves the definition of mem as it was: the Store is built
\* but never written back.
process_poke_unwritten(s, address, t0, t1) == Let([n \in {binary_operands(s, address, t0, t1)} |->
    Let([mem \in {read_variable(n.st, n.addr, MemId)} |->
    Let([op_node \in {add_op(mem.st, "OpStore", 0, mem.addr, 0)} |->
    Let([s1 \in {op_use(op_use(op_use(op_node.st, op_node.val, 0, mem.val), op_node.val, 1, n.lhs), op_node.val, 2, n.rhs)} |->
    Ctx(s1, MAddr(op_node.addr[1], op_node.addr[2] + 1), InvalidValue)])])])])

\* process_op of EPoke on two operand tokens, and the cursor step of run
\* after it.
process_poke(s, address, t0, t1) == Let([n \in {binary_operands(s, address, t0, t1)} |->
    Let([mem \in {read_variable(n.st, n.addr, MemId)} |->
    Let([op_node \in {add_op(mem.st, "OpStore", 0, mem.addr, 0)} |->
    Let([s1 \in {op_use(op_use(op_use(op_node.st, op_node.val, 0, mem.val), op_node.val, 1, n.lhs), op_node.val, 2, n.rhs)} |->
    Ctx(write_variable(s1, op_node.addr, MemId, op_node.val), MAddr(op_node.addr[1], op_node.addr[2] + 1), InvalidValue)])])])])

\* process_op of EPeek(n) on one operand token, and the cursor step of run
\* after it; val is the Load.
process_peek(s, address, t0, n) == Let([lhs \in {process_in(s, address, t0, OpSize)} |->
    Let([o \in {narrow_const_operand(lhs.st, lhs.addr, lhs.val, 0)} |->
    Let([mem \in {read_variable(o.st, o.addr, MemId)} |->
    Let([op_node \in {add_op(mem.st, "OpLoad", 0, mem.addr, n)} |->
    Ctx(op_use(op_use(op_node.st, op_node.val, 0, mem.val), op_node.val, 1, o.lhs), MAddr(op_node.addr[1], op_node.addr[2] + 1), op_node.val)])])])])

\* An instruction `rax,rdi,=[8]`.
StepPoke == /\ CanStep
            /\ Done(process_poke(Head0, MAddr(NextOffset, 0), [k |-> "reg", name |-> "rdi"], [k |-> "reg", name |-> "rax"]), "poke", 0, FALSE, <<>>)

\* An instruction `rdi,[8]`.
StepPeek == /\ CanStep
            /\ Done(process_peek(Head0, MAddr(NextOffset, 0), [k |-> "reg", name |-> "rdi"], 64), "peek", 0, FALSE, <<>>)

MemNext == \/ StepPoke
           \/ StepPeek
           \/ StepJump

MemSpec == RunInit /\ [][MemNext]_vars

(***************************************************************************)
(* init_call_ctx over a module: functions 1 and 2, the import 3, the       *)
(* call target 4 that is neither; a call graph of up to MaxEdges edges in   *)
(* the order they were added, each with its call site, and the set of call  *)
(* sites that hold an OpCall in the SSA of their function.                  *)
(***************************************************************************)
MaxEdges == 2
Functions == {1, 2}
Imports == {3}
CallTargets == Functions \cup Imports \cup {4}
CallSites == {1, 2}
CallEdges == [src : Functions, dst : CallTargets, csite : CallSites]

\* analyze_callsite_initial(rfn): a default call context for every OpCall of
\* the function, keyed by the address of the call; its map is not resolved.
analyze_callsite_initial(calls, f) == [c \in {c \in CallSites : <<f, c>> \in calls} |-> [csite |-> c, resolved |-> FALSE]]

\* WalkNeighbors::next over the outgoing edges of `f`: the edge added last,
\* 0 when there is none.
walker_next(g, f) == Let([out \in {{i \in 1..Len(g) : g[i].src = f}} |->
    IF out = {} THEN 0 ELSE CHOOSE i \in out : \A j \in out : j <= i])

\* update_edge(a, b, weight): the weight of the edge a -> b found first.
update_edge(g, a, b, weight) == Let([found \in {{i \in 1..Len(g) : g[i].src = a /\ g[i].dst = b}} |->
    IF found = {} THEN Append(g, [src |-> a, dst |-> b, w |-> weight]) ELSE [g EXCEPT ![CHOOSE i \in found : \A j \in found : j <= i].w = weight]])

\* The body of the loop of init_call_ctx for the function `f`.
call_ctx_of(g, calls, f) == Let([csites \in {analyze_callsite_initial(calls, f)} |->
    Let([csi \in {walker_next(g, f)} |->
    IF csi = 0 THEN g ELSE Let([csite \in {g[csi].w.csite} |->
    Let([callee \in {g[csi].dst} |->
    IF callee \in Functions \cup Imports /\ csite \in DOMAIN csites THEN update_edge(g, f, callee, [csites[csite] EXCEPT !.resolved = TRUE]) ELSE g])])])])

RECURSIVE call_ctx_from(_, _, _)
\* init_call_ctx(rmod), from the function `f` on.
call_ctx_from(g, calls, f) == IF f \notin Functions THEN g ELSE call_ctx_from(call_ctx_of(g, calls, f), calls, f + 1)

init_call_ctx(g, calls) == call_ctx_from(g, calls, 1)

\* The call graph as load_call_graph leaves it.
load_call_graph(es) == [i \in 1..Len(es) |-> [src |-> es[i].src, dst |-> es[i].dst, w |-> [csite |-> es[i].csite, resolved |-> FALSE]]]

\* The call graphs: two calls of one function have different call sites.
CallGraphs == {es \in UNION {[1..n -> CallEdges] : n \in 0..MaxEdges} : \A i, j \in 1..Len(es) : (i # j /\ es[i].src = es[j].src) => es[i].csite # es[j].csite}

CtxInit == /\ cin \in [edges : CallGraphs, calls : SUBSET (Functions \X CallSites)]
           /\ cout = load_call_graph(cin.edges)
           /\ pc = "ctx"
           /\ pp = PlacerNew
           /\ nesting = <<>>
           /\ needs_new_block = FALSE
           /\ current_address = MAddr(0, 0)
           /\ ops = <<>>
           /\ wl = <<>>
           /\ parser = ParserInit
           /\ files = {}
           /\ seen = {}
           /\ wasted_cycles = 0
           /\ rin = <<>>
           /\ rout = <<>>

\* init_call_ctx(rmod)
InitCallCtx == /\ pc = "ctx"
               /\ cout' = init_call_ctx(cout, cin.calls)
               /\ pc' = "ctx_done"
               /\ UNCHANGED <<pp, nesting, needs_new_block, current_address, ops, wl, seen, wasted_cycles, cin, rin, rout, parser, files>>

CtxNext == InitCallCtx

CtxSpec == CtxInit /\ [][CtxNext]_vars

(***************************************************************************)
(* Properties.                                                             *)
(***************************************************************************)
Finished == pc = "done"
Phis(s) == {v \in 1..Len(s.nodes) : IsPhi(s, v)}
Ites(s) == {v \in 1..Len(s.nodes) : IsOpc(s, v, "OpITE")}
OutEdges(s, b, ty) == {j \in 1..Len(s.edges) : s.edges[j].src = b /\ s.edges[j].ty = ty}
HasEdge(s, a, b, ty) == \E j \in 1..Len(s.edges) : s.edges[j] = [src |-> a, dst |-> b, ty |-> ty]
LastOp == ops[Len(ops)]

RECURSIVE ReachFrom(_, _)
\* The blocks reachable through control edges from the blocks of R.
ReachFrom(s, R) == LET N == R \cup {e.dst : e \in {x \in SeqSet(s.edges) : x.src \in R}} IN IF N = R THEN R ELSE ReachFrom(s, N)
Reachable(s) == ReachFrom(s, {s.entry})

\* The measure of the sealing loop: the blocks not sealed, the blocks not
\* yet taken from the worklist, and the cycles left before the loop gives up.
SealRank == <<Cardinality((1..Len(pp.bstart)) \ pp.sealed_blocks), Cardinality((1..Len(pp.bstart)) \ seen), Len(wl) + 1 - wasted_cycles>>
LexLess(a, b) == \/ a[1] < b[1]
                 \/ (a[1] = b[1] /\ a[2] < b[2])
                 \/ (a[1] = b[1] /\ a[2] = b[2] /\ a[3] < b[3])

\* C1: after finish no trivial phi remains: every phi still in the graph
\* has at least two distinct operands other than itself.
C1_NoTrivialPhi == Finished => \A v \in Phis(pp) : Cardinality(SeqSet(operands_of(pp, v)) \ {v}) >= 2

\* C2: after finish a phi has at most one operand for every predecessor of
\* its block: no more operands than the block has predecessors.
C2_OperandPerPredecessor == Finished => \A v \in Phis(pp) : Len(operands_of(pp, v)) <= Cardinality(SeqSet(preds_of(pp, block_of(pp, pp.index_to_addr[v]))))

\* Every iteration of the sealing loop lowers its measure, which is bounded
\* below: the loop ends.
SealingEnds == [][(pc = "seal" /\ pc' = "seal") => (LexLess(SealRank', SealRank) /\ SealRank[3] >= 0)]_vars

\* C3: the sealing loop of finish ends (every iteration lowers a measure
\* that is bounded below), and when it has ended every basic block reachable
\* from the entry block is sealed.
C3_SealingEndsAllReachableSealed == /\ SealingEnds
                                    /\ []((pc = "force" /\ wl = <<>>) => (Reachable(pp) \ {pp.exit}) \subseteq pp.sealed_blocks)

\* C4, as stated: a block enters the sealed set only in a step before which
\* every one of its predecessors is sealed.
C4_SealedAfterAllPreds == [][\A b \in pp'.sealed_blocks \ pp.sealed_blocks : \A x \in SeqSet(preds_of(pp, b)) : x \in pp.sealed_blocks]_vars

\* C4, amended: in the worklist pass of finish a block enters the sealed set
\* only in a step before which every predecessor other than the block
\* itself is sealed; the blocks the pass leaves on the worklist are sealed
\* whatever their predecessors.
C4_WorklistSealsAfterOtherPreds == [][pc = "seal" => \A b \in pp'.sealed_blocks \ pp.sealed_blocks : \A x \in SeqSet(preds_of(pp, b)) \ {b} : x \in pp.sealed_blocks]_vars

\* A block with two predecessors other than itself was sealed by the
\* worklist pass.
C4_JoinSealedByWorklist == pc = "seal" /\ \E b \in pp.sealed_blocks : Cardinality(SeqSet(preds_of(pp, b)) \ {b}) >= 2

\* The instruction just processed is a direct jump to an earlier
\* instruction.
BackJump == pc = "run" /\ Len(ops) >= 2 /\ LastOp.kind = "jmp" /\ LastOp.arg >= InstrAddr(1) /\ LastOp.arg < LastOp.offset

\* C5: after a direct jump at c to an earlier instruction t, the block that
\* now contains c has an unconditional edge to the block that starts at t.
C5_BackJumpEdge == BackJump => (Has(pp.blocks, MAddr(LastOp.arg, 0)) /\ HasEdge(pp, block_of(pp, MAddr(LastOp.offset, 0)), pp.blocks[MAddr(LastOp.arg, 0)], UNCOND_EDGE))

\* The instructions with an If token, and the ITE of such an instruction.
IfOps == {i \in 1..Len(ops) : ops[i].kind \in {"cjmp", "cmov"}}
IteOf(i) == CHOOSE v \in Ites(pp) : pp.index_to_addr[v][1] = ops[i].offset
IfWired(i) == LET a == pp.index_to_addr[IteOf(i)]
                  b == block_of(pp, a)
                  tb == MAddr(a[1], a[2] + 2)
                  fb == MAddr(ops[i + 1].offset, 0)
              IN /\ Cardinality(OutEdges(pp, b, TRUE_EDGE)) = 1
                 /\ Has(pp.blocks, tb)
                 /\ \A j \in OutEdges(pp, b, TRUE_EDGE) : pp.edges[j].dst = pp.blocks[tb]
                 /\ Cardinality(OutEdges(pp, b, FALSE_EDGE)) = 1
                 /\ Has(pp.blocks, fb)
                 /\ \A j \in OutEdges(pp, b, FALSE_EDGE) : pp.edges[j].dst = pp.blocks[fb]

\* C6: when the instructions have been processed, the block that holds the
\* ITE of an If (one that has a following instruction) has exactly one true
\* out-edge, to the block opened right after the ITE, and exactly one false
\* out-edge, to the block of the following instruction.
C6_IfEdges == pc = "seal" => \A i \in IfOps : i < Len(ops) => IfWired(i)

\* C7: the last part of finish removes every ITE and makes the first operand
\* of each, its operand 0, the selector of the block of the ITE's address;
\* after it no ITE is left and every block with both a false and a true
\* out-edge has a selector.
C7_IteBecomesSelector == [][(pc = "force" /\ pc' = "done") => /\ \A v \in Ites(pp) : /\ ~node_ok(pp', v)
                                                                                      /\ pp.nodes[v].args[1] # 0
                                                                                      /\ Has(pp'.selector, block_of(pp, pp.index_to_addr[v]))
                                                                                      /\ pp'.selector[block_of(pp, pp.index_to_addr[v])] = pp.nodes[v].args[1]
                                                               /\ Ites(pp') = {}
                                                               /\ \A b \in ssa_blocks(pp') : (OutEdges(pp', b, FALSE_EDGE) # {} /\ OutEdges(pp', b, TRUE_EDGE) # {}) => Has(pp'.selector, b)]_vars

\* finish has ended on a graph with a block that has both a false and a true
\* out-edge and a selector, its ITE removed.
C7_SelectorSet == Finished /\ \E b \in ssa_blocks(pp) : /\ OutEdges(pp, b, FALSE_EDGE) # {}
                                                        /\ OutEdges(pp, b, TRUE_EDGE) # {}
                                                        /\ Has(pp.selector, b)
                                                        /\ \E v \in 1..Len(pp.nodes) : pp.nodes[v].opc = "OpITE" /\ ~pp.nodes[v].live /\ block_of(pp, pp.index_to_addr[v]) = b

\* The bit positions of a register within its whole register.
Field(reg) == {i \in BitPos : i >= SubRegs[reg].shift /\ i < SubRegs[reg].shift + SubRegs[reg].width}

\* C8: a write of v to a register s followed by a read of s denotes v
\* within the width of s, and the bits of the whole register outside s
\* denote what they did before the write.
C8_SubRegisterRoundTrip == pc = "reg_read" => /\ Eval(pp, rout.sub) = rin.v \cap LowMask(SubRegs[rin.reg].width)
                                              /\ Eval(pp, rout.whole) \ Field(rin.reg) = rin.old \ Field(rin.reg)

\* The constant the call of add_const inserted: the first value past those
\* of the graph the call began with.
NewConst == Len(BaseGraph.nodes) + 1

\* C9: add_const with a declared width w in 1..63 inserts the constant
\* `value` masked to its low w bits.
C9_ConstMasked == (pc = "const_done" /\ cin.vt \in 1..63) => (IsConst(pp, NewConst) /\ pp.nodes[NewConst].cv = cin.value \cap LowMask(cin.vt))

\* The call returned a Narrow(w) whose only operand, operand 0, is the new
\* constant, which nothing else uses.
ReturnsNarrow(w) == /\ IsOpc(pp, cout, "OpNarrow")
                    /\ pp.nodes[cout].par = w
                    /\ pp.nodes[cout].args = <<NewConst>>
                    /\ IsConst(pp, NewConst)
                    /\ uses_of(pp, NewConst) = {cout}
                    /\ Len(pp.nodes) = Len(BaseGraph.nodes) + 2

\* The call returned the new constant, created nothing else and left the
\* cursor where it was.
ReturnsBare == /\ cout = NewConst
               /\ IsConst(pp, NewConst)
               /\ Len(pp.nodes) = Len(BaseGraph.nodes) + 1
               /\ uses_of(pp, NewConst) = {}
               /\ current_address \in ConstAddrs

\* C10, as stated: with a declared width other than 64 the constant is the
\* only operand of the Narrow(w) that add_const returns; with no declared
\* type or the width 64 add_const returns the bare constant.
C10_NarrowUnless64 == pc = "const_done" => /\ cin.vt \in (ConstWidths \ {NoVt, WUnknown, 64}) => ReturnsNarrow(cin.vt)
                                           /\ cin.vt \in {NoVt, 64} => ReturnsBare

\* C10, amended: with a declared width below 64 the constant is the only
\* operand of the Narrow(w) that add_const returns; with no declared type,
\* an unknown width or a width of 64 or more add_const returns the bare
\* constant, creates no operation and leaves the cursor unchanged.
C10_NarrowBelow64 == pc = "const_done" => /\ cin.vt \in 1..63 => ReturnsNarrow(cin.vt)
                                          /\ cin.vt \notin 1..63 => ReturnsBare

\* add_const has returned a Narrow(8) over a new constant.
C10_NarrowReturned == pc = "const_done" /\ cin.vt = 8 /\ ReturnsNarrow(8)

\* The width of an operand token as process_in yields it.
TokenWidth(t) == IF t.k = "reg" THEN SubRegs[t.name].width ELSE CanonWidth
\* The common width of two operand tokens: a constant against a narrower
\* register is narrowed to the register, otherwise the wider of the two.
UnifiedWidth(a, b) == IF a.k # b.k THEN (IF a.k = "reg" THEN TokenWidth(a) ELSE TokenWidth(b)) ELSE IF TokenWidth(a) > TokenWidth(b) THEN TokenWidth(a) ELSE TokenWidth(b)
BinArgs == pp.nodes[cout].args

\* C11: a binary operation emitted by process_op has two operands of equal
\* width; where the widths differ after constant narrowing the narrower one
\* is a ZeroExt to the wider width of the operand it replaces, and the
\* result is as wide as the wider operand (one bit for Lt and Gt).
C11_BinaryOperandsSameWidth == pc = "bin_done" =>
    /\ IsOpc(pp, cout, BinOpcode(cin.token))
    /\ Len(BinArgs) = 2
    /\ operand_width(pp, BinArgs[1]) = UnifiedWidth(cin.lhs, cin.rhs)
    /\ operand_width(pp, BinArgs[2]) = UnifiedWidth(cin.lhs, cin.rhs)
    /\ pp.nodes[cout].w = IF cin.token \in {"ELt", "EGt"} THEN 1 ELSE UnifiedWidth(cin.lhs, cin.rhs)
    /\ \A i \in 1..2 : LET t == IF i = 1 THEN cin.lhs ELSE cin.rhs IN
          (cin.lhs.k = cin.rhs.k /\ TokenWidth(t) < UnifiedWidth(cin.lhs, cin.rhs)) =>
             /\ IsOpc(pp, BinArgs[i], "OpZeroExt")
             /\ pp.nodes[BinArgs[i]].par = UnifiedWidth(cin.lhs, cin.rhs)
             /\ operand_width(pp, pp.nodes[BinArgs[i]].args[1]) = TokenWidth(t)

\* A binary operation whose narrower operand was widened.
C11_OperandWidened == pc = "bin_done" /\ cin.lhs.k = "reg" /\ cin.rhs.k = "reg" /\ \E i \in 1..2 : IsOpc(pp, BinArgs[i], "OpZeroExt")

\* C12: the entry block never has a predecessor: whatever instructions were
\* processed, direct jumps to address 0 included, no control edge has the
\* entry block as its target.
C12_EntryNoPredecessor == pc # "init" => \A e \in SeqSet(pp.edges) : e.dst # pp.entry
\* The control edges whose target is the exit block.
ExitEdges == {e \in SeqSet(pp.edges) : e.dst = pp.exit}

\* C13: after any sequence of instructions followed by gather_exits and
\* finish, every control edge whose target is the exit block is
\* unconditional (type 2).
C13_ExitEdgesUnconditional == Finished => \A e \in ExitEdges : e.ty = UNCOND_EDGE

\* A finished run in which a `ret` and gather_exits each gave the exit
\* block an in-edge.
C13_ExitReached == Finished /\ Cardinality({e.src : e \in ExitEdges}) >= 2 /\ \E i \in 1..Len(ops) : ops[i].kind = "ret"
\* The last step processed an instruction of one of the kinds `ks`.
Processed(ks) == Len(ops') = Len(ops) + 1 /\ ops'[Len(ops')].kind \in ks
\* A call handled under the calling convention (kind, assume_cc).
UnderCC(kind) == cin.assume_cc /\ kind \in {"call", "ucall"}
\* The values the instruction being processed created in the graph s.
Fresh(s) == (Len(Head0.nodes) + 1)..Len(s.nodes)
\* x is the value of variable v on entry to the instruction at NextOffset: its
\* definition in the block where there is one, else a phi of v placed in
\* the block by the read.
PreCallValue(s, v, x) == \E d \in {current_def_in_block(Head0, v, MAddr(NextOffset, 0))} :
                           IF d # InvalidValue THEN x = d ELSE x \in Fresh(s) /\ IsPhi(s, x) /\ s.outputs[x] = v
\* Operand i of the value v in the graph s; 0 where there is none.
Operand(s, v, i) == IF i + 1 <= Len(s.nodes[v].args) THEN s.nodes[v].args[i + 1] ELSE 0
\* d is a definition written for this call: a move of a comment for a
\* register, a comment for mem, the comment with the call as operand i.
ClobberOf(s, d, v, call, i) == \E c \in {IF v = MemId THEN d ELSE Operand(s, d, 0)} :
                                 /\ d \in Fresh(s) /\ c \in Fresh(s)
                                 /\ (v # MemId => IsOpc(s, d, "OpMov"))
                                 /\ s.nodes[c].nt = "Comment"
                                 /\ Operand(s, c, i) = call

\* C14: a call or unsupported-token instruction handled without the
\* calling convention makes a call value with the call target as operand
\* 0, the pre-call value of whole register i as operand i + 1 for every
\* whole register i and the pre-call memory value as operand R + 1; after
\* it the current definition of every whole register and of mem is a value
\* created for this call, different from the pre-call one.
C14_CallClobbersAll == [][(Processed(CallTypes) /\ ~UnderCC(ops'[Len(ops')].kind)) =>
                            /\ IsOpc(pp', cout', IF ops'[Len(ops')].kind = "ESIL" THEN "OpCustom" ELSE "OpCall")
                            /\ cout' \in Fresh(pp')
                            /\ Len(pp'.nodes[cout'].args) = MemId + 2
                            /\ Operand(pp', cout', 0) \in Fresh(pp')
                            /\ pp'.nodes[Operand(pp', cout', 0)].nt = "Comment"
                            /\ pp'.nodes[Operand(pp', cout', 0)].opc = "opcode"
                            /\ \A v \in VarIds :
                                 /\ PreCallValue(pp', v, Operand(pp', cout', v + 1))
                                 /\ \E d \in {current_def_in_block(pp', v, current_address')} :
                                      /\ ClobberOf(pp', d, v, cout', v)
                                      /\ d # Operand(pp', cout', v + 1)
                                      /\ d # current_def_in_block(Head0, v, MAddr(NextOffset, 0))]_vars

\* A call without the calling convention, after a move, was processed.
C14_CallProcessed == /\ ~cin.assume_cc /\ pc = "run" /\ Len(ops) >= 2
                     /\ LastOp.kind = "call" /\ ops[Len(ops) - 1].kind = "mov"
                     /\ IsOpc(pp, cout, "OpCall") /\ Len(pp.nodes[cout].args) = MemId + 2
\* The variables of the argument registers and of the return register.
ArgVars == {get_subregister(iter_args[k][2]).base : k \in 1..Len(iter_args)}
ReturnVar == get_subregister(ReturnReg).base
\* The operand slots of a call under the calling convention: the target,
\* one per argument register, mem.
ArgSlots == {0, MemId + 1} \cup {iter_args[k][1] + 1 : k \in 1..Len(iter_args)}

BlockAt(s, offset) == block_of(s, MAddr(offset, 0))

IndirectBlock == Len(pp'.bstart)

\* C17: every call of add_indirect_cf creates a block that did not exist
\* before the call, keyed by the synthetic address, which starts at
\* u64::MAX - 1, gets smaller with every call and is never that of the exit
\* block; it adds exactly one edge, of the given type, from the current
\* block to the new block, and an ITE with the selector as operand 0.
C17_IndirectBlockFresh == [][Processed({"ijmp"}) =>
                               /\ Len(pp'.bstart) = Len(Head0.bstart) + 1
                               /\ Head0.unexplored_addr = U64Max - 1 - Cardinality({i \in 1..Len(ops) : ops[i].kind = "ijmp"})
                               /\ pp'.unexplored_addr = Head0.unexplored_addr - 1
                               /\ pp'.blocks[MAddr(Head0.unexplored_addr, 0)] = IndirectBlock
                               /\ IndirectBlock # pp'.exit
                               /\ pp'.edges = Append(Head0.edges, [src |-> BlockAt(Head0, NextOffset), dst |-> IndirectBlock, ty |-> UNCOND_EDGE])
                               /\ \E ite \in Fresh(pp') : IsOpc(pp', ite, "OpITE") /\ PreCallValue(pp', get_subregister("rax").base, Operand(pp', ite, 0))]_vars
\* C18: when the parser reports an error for an instruction, from parsing
\* or from fetching operands, the driver abandons the instruction: its next
\* step leaves the token loop for the next instruction (or the end of
\* run), and no further call of the parser is made for the instruction.
C18_ErrorAbandonsInstruction == [][(pc = "parse" /\ parser.failed) => pc' = "run"]_vars
\* C19: for a register name the register file does not know, read_register
\* returns a new Undefined value of unknown width, placed at the cursor,
\* and changes nothing else; write_register changes neither the graph, nor
\* any definition of a variable, nor the address cursor.
C19_UnknownRegister == [][/\ (pc \in {"unknown", "unknown_read"} /\ pc' \in {"unknown_written", "unknown_done"}) =>
                               pp' = pp /\ current_address' = current_address
                          /\ (pc \in {"unknown", "unknown_written"} /\ pc' \in {"unknown_read", "unknown_done"}) =>
                               /\ rout'.sub = Len(pp.nodes) + 1
                               /\ node_ok(pp', rout'.sub)
                               /\ pp'.nodes[rout'.sub].nt = "Undefined"
                               /\ pp'.nodes[rout'.sub].w = WUnknown
                               /\ pp' = [pp EXCEPT !.nodes = Append(@, pp'.nodes[rout'.sub]), !.index_to_addr = Put(@, rout'.sub, current_address)]
                               /\ current_address' = current_address]_vars

\* An unknown register was written, then read.
C19_UnknownWrittenAndRead == /\ pc = "unknown_done" /\ rin.reg \in UnknownNames /\ rin.reg \notin RegNames
                             /\ pp.nodes[rout.sub].nt = "Undefined" /\ rout.value # InvalidValue
\* The addresses of the modelled word, each with the least offset and with
\* one no instruction of the model goes beyond.
MaxOffset == 8
Addresses == {MAddr(a, o) : a \in 0..U64Max, o \in {0, MaxOffset}}

\* C20: once init_blocks has run, block_of returns a block for every
\* address, and no control edge has the invalid-action sentinel as its
\* source or its target.
C20_NoSentinelEndpoint == pc # "init" =>
                            /\ \A a \in Addresses : block_of(pp, a) # InvalidAction
                            /\ \A e \in SeqSet(pp.edges) : e.src # InvalidAction /\ e.dst # InvalidAction

\* A run in which add_block, add_indirect_cf, add_return and maybe_add_edge
\* each inserted an edge.
C20_EdgesInserted == /\ pc = "run" /\ Len(ops) = 3
                     /\ ops[1].kind = "jmp" /\ ops[2].kind = "ijmp" /\ ops[3].kind = "ret"
                     /\ Len(pp.edges) >= 4
\* The run processed the single instruction `c,rax,=`.
SingleMov == pc = "run" /\ Len(ops) = 1 /\ ops[1].kind = "mov"
\* The current definition of rax at the cursor.
RaxDef == current_def_in_block(pp, get_subregister("rax").base, current_address)
\* v is the constant c of the canonical width.
IsConstOf(s, v, c) == IsConst(s, v) /\ s.nodes[v].cv = Bits(c) /\ s.nodes[v].w = CanonWidth

\* C21 (as stated): after the single instruction `5,rax,=` the block of the
\* instruction starts at its address and the current definition of rax in
\* it is the constant 5 itself.
C21_RaxIsConst == SingleMov =>
                    /\ starting_address(pp, BlockAt(pp, ops[1].offset)) = MAddr(ops[1].offset, 0)
                    /\ IsConstOf(pp, RaxDef, MovValue)

\* C21 (amended): after the single instruction `5,rax,=` the block of the
\* instruction starts at its address, is not the entry block, and the
\* current definition of rax in it is a Mov whose only operand is the
\* 64-bit constant 5; the definition denotes 5.
C21_RaxIsMovOfConst == SingleMov =>
                         /\ starting_address(pp, BlockAt(pp, ops[1].offset)) = MAddr(ops[1].offset, 0)
                         /\ BlockAt(pp, ops[1].offset) # pp.entry
                         /\ IsOpc(pp, RaxDef, "OpMov")
                         /\ Len(pp.nodes[RaxDef].args) = 1
                         /\ IsConstOf(pp, Operand(pp, RaxDef, 0), MovValue)
                         /\ Eval(pp, RaxDef) = Bits(MovValue)

\* The single instruction `5,rax,=` was processed and rax has a definition
\* in its block.
C21_SingleMovProcessed == SingleMov /\ ops[1].offset = InstrAddr(1) /\ RaxDef # InvalidValue

\* C22: every capability FileSource reads is looked up under the file name
\* the conversion from a live source wrote for it, so every read of the
\* returned FileSource, `exports` included, succeeds.
C22_EveryCapabilityReadBack == pc = "read" => rout.ok

\* The state in which the direct jump just processed called add_block, the
\* block it split and the block the split created.
JumpPre == jump_operands(Head0, MAddr(NextOffset, 0), ops'[Len(ops')].arg)
JumpAt == MAddr(ops'[Len(ops')].arg, 0)
JumpSplit == /\ Processed({"jmp"})
             /\ MLt(JumpAt, JumpPre.addr)
             /\ block_of(JumpPre.st, JumpAt) # InvalidAction
             /\ ~Has(JumpPre.st.blocks, JumpAt)
UpperBlock == block_of(JumpPre.st, JumpAt)
LowerBlock == pp'.blocks[JumpAt]
EdgesFrom(s, b) == {j \in 1..Len(s.edges) : s.edges[j].src = b}

\* C23: after add_block splits an upper block at `at`, every control edge
\* that left the upper block before the split leaves the lower block with
\* its type and target, and the only out-edge of the upper block is one
\* unconditional edge to the lower block.
C23_SplitMovesEdges == [][JumpSplit => /\ \A j \in EdgesFrom(JumpPre.st, UpperBlock) : HasEdge(pp', LowerBlock, JumpPre.st.edges[j].dst, JumpPre.st.edges[j].ty)
                                       /\ Cardinality(EdgesFrom(pp', UpperBlock)) = 1
                                       /\ HasEdge(pp', UpperBlock, LowerBlock, UNCOND_EDGE)]_vars

\* C24: after add_block splits a block at `at`, no value of the lower part
\* keeps a direct operand edge to a non-constant definition of the upper
\* block that is the residence of a variable, whatever the order in which
\* the recorded values are walked.
C24_LowerOperandsResolved == [][JumpSplit => \A ni \in lower_values(pp', JumpAt, LowerBlock) : resolvable_operands(pp', ni, UpperBlock) = {}]_vars

\* The addresses at which the block of `address` holds a definition of the
\* variable.
DefsInBlock(s, variable, address) == {d \in DOMAIN s.current_def[variable] : block_of(s, d) = block_of(s, address)}
DefsBelow(s, variable, address) == {d \in DefsInBlock(s, variable, address) : MLeq(d, address)}
Read == pc = "run" /\ pc' = "read"

\* C25: read_variable(addr, var) returns, whenever the block of addr holds a
\* definition of var at an address <= addr, the definition at the greatest
\* such address and changes no state; a definition of the same block at a
\* greater address is never returned.
C25_ReadGreatestBelow == [][(Read /\ DefsBelow(pp, rout'.variable, rout'.address) # {}) =>
                               /\ rout'.val = pp.current_def[rout'.variable][MMax(DefsBelow(pp, rout'.variable, rout'.address))]
                               /\ pp' = pp]_vars

\* C25, as the code has it: whenever the block of addr holds a definition of
\* var, read_variable returns the definition at the greatest address of that
\* block, above addr or not, creates no phi and changes no state.
C25_ReadLatestInBlock == [][(Read /\ DefsInBlock(pp, rout'.variable, rout'.address) # {}) =>
                               /\ rout'.val = pp.current_def[rout'.variable][MMax(DefsInBlock(pp, rout'.variable, rout'.address))]
                               /\ pp' = pp]_vars

\* A read at an address with a definition of the same block on either side.
C25_ReadBetweenDefs == /\ pc = "read"
                       /\ DefsBelow(pp, rout.variable, rout.address) # {}
                       /\ DefsInBlock(pp, rout.variable, rout.address) \ DefsBelow(pp, rout.variable, rout.address) # {}

\* The values added by the add_block call of the jump just processed.
SplitFresh == (Len(JumpPre.st.nodes) + 1)..Len(pp'.nodes)

\* C26: there is at most one incomplete phi for a block and a variable: the
\* phi recorded for the pair is never replaced by another one, and every
\* cross-block read a split makes for a variable in the new unsealed lower
\* block returns the phi recorded for that variable.
C26_OneIncompletePhi == [][/\ \A b \in DOMAIN pp.incomplete_phis : \A v \in DOMAIN pp.incomplete_phis[b] :
                                Has(pp'.incomplete_phis, b) /\ Has(pp'.incomplete_phis[b], v) /\ pp'.incomplete_phis[b][v] = pp.incomplete_phis[b][v]
                           /\ JumpSplit => \A ni \in lower_values(pp', JumpAt, LowerBlock) : \A o \in sparse_operands_of(pp', ni) :
                                (o[2] \in SplitFresh /\ Has(pp'.outputs, o[2])) => /\ Has(pp'.incomplete_phis[JumpAt], pp'.outputs[o[2]])
                                                                                  /\ o[2] = pp'.incomplete_phis[JumpAt][pp'.outputs[o[2]]]]_vars

\* An addition made before a split whose two operands the split replaced by
\* the one incomplete phi of the lower block: the second cross-block read
\* found the phi of the first.
C26_PhiReused == \E b \in DOMAIN pp.incomplete_phis : \E v \in DOMAIN pp.incomplete_phis[b] : \E ni \in 1..Len(pp.nodes) :
                    /\ IsOpc(pp, ni, "OpAdd")
                    /\ ni < pp.incomplete_phis[b][v]
                    /\ pp.index_to_addr[ni][1] = b[1]
                    /\ pp.nodes[ni].args = <<pp.incomplete_phis[b][v], pp.incomplete_phis[b][v]>>

\* The values that have been replaced and removed from the graph.
Removed(s) == {v \in 1..Len(s.nodes) : ~s.nodes[v].live}

\* C28: a phi that has been eliminated as trivial is referenced nowhere: no
\* definition map entry of any variable, no incomplete-phi table entry of
\* any block, no key of `outputs` and no operand edge refers to it.
C28_EliminatedPhiUnreferenced == /\ \A v \in VarIds : \A d \in DOMAIN pp.current_def[v] : pp.current_def[v][d] \notin Removed(pp)
                                 /\ \A b \in DOMAIN pp.incomplete_phis : \A v \in DOMAIN pp.incomplete_phis[b] : pp.incomplete_phis[b][v] \notin Removed(pp)
                                 /\ \A k \in DOMAIN pp.outputs : k \notin Removed(pp)
                                 /\ \A u \in 1..Len(pp.nodes) : pp.nodes[u].live => \A i \in 1..Len(pp.nodes[u].args) : pp.nodes[u].args[i] \notin Removed(pp)

\* The distinct operands of the phi other than the phi itself.
NonSelf == SeqSet(TrivialValues(rin.operands)) \ {cout}
TriedRemove == pc = "phi" /\ pc' = "removed"

\* C27: try_remove_trivial_phi replaces a phi exactly when its operands,
\* ignoring the phi itself, hold at most one distinct value: with one the
\* phi is replaced by it, with none by a fresh Undefined of the phi's type,
\* and with two or more the phi is returned and no state changes.
C27_TrivialPhiReplaced == [][TriedRemove => /\ Cardinality(NonSelf) >= 2 => (rout'.val = cout /\ pp' = pp)
                                            /\ Cardinality(NonSelf) = 1 => (rout'.val \in NonSelf /\ ~pp'.nodes[cout].live)
                                            /\ NonSelf = {} => /\ rout'.val = Len(pp.nodes) + 1
                                                               /\ pp'.nodes[rout'.val].nt = "Undefined"
                                                               /\ pp'.nodes[rout'.val].w = pp.nodes[cout].w
                                                               /\ ~pp'.nodes[cout].live]_vars

\* A phi whose operands are itself and one other value, replaced by that
\* value.
C27_SelfAndOneReplaced == /\ pc = "removed"
                          /\ cout \in SeqSet(TrivialValues(rin.operands))
                          /\ Cardinality(NonSelf) = 1
                          /\ rout.val \in NonSelf
                          /\ ~pp.nodes[cout].live

\* The definition of the base register of rin.reg at the current address,
\* and the operand i (from 0) of a value.
BaseDef == current_def_in_block(pp, SubRegs[rin.reg].base, current_address)
Arg(s, v, i) == IF node_ok(s, v) /\ i < Len(s.nodes[v].args) THEN s.nodes[v].args[i + 1] ELSE InvalidValue

\* C29: a partial write with shift > 0 defines the base register as
\* Or(x, And(old_base, mask)), x the Lsl operation that shifts the new value
\* left by the shift amount and mask the constant complement of the field
\* within the base width.
C29_ShiftedWriteOrsLsl == (pc = "reg_written" /\ SubRegs[rin.reg].shift > 0) =>
                              /\ IsOpc(pp, BaseDef, "OpOr")
                              /\ IsOpc(pp, Arg(pp, BaseDef, 0), "OpLsl")
                              /\ IsConst(pp, Arg(pp, Arg(pp, BaseDef, 0), 1))
                              /\ pp.nodes[Arg(pp, Arg(pp, BaseDef, 0), 1)].cv = Bits(SubRegs[rin.reg].shift)
                              /\ IsOpc(pp, Arg(pp, BaseDef, 1), "OpAnd")
                              /\ IsConst(pp, Arg(pp, Arg(pp, BaseDef, 1), 1))
                              /\ pp.nodes[Arg(pp, Arg(pp, BaseDef, 1), 1)].cv = BitPos \ Field(rin.reg)

ReadStep == pc = "reg_written" /\ pc' = "reg_read"
\* The Lsr of the base definition by the constant shift of rin.reg.
IsLsrOfBase(s, v) == /\ IsOpc(s, v, "OpLsr")
                     /\ Arg(s, v, 0) = BaseDef
                     /\ IsConst(s, Arg(s, v, 1))
                     /\ s.nodes[Arg(s, v, 1)].cv = Bits(SubRegs[rin.reg].shift)

Narrowed == pc = "narrow" /\ pc' = "narrowed"
\* Exactly one of the two operands is a constant and the other, present, is
\* narrower than 64 bits; the constant and the other operand.
OneConstNarrow == /\ rout.lhs # 0 /\ rout.rhs # 0
                  /\ IsConst(pp, rout.lhs) # IsConst(pp, rout.rhs)
                  /\ operand_width(pp, IF IsConst(pp, rout.lhs) THEN rout.rhs ELSE rout.lhs) < 64
ConstSide(r) == IF IsConst(pp, rout.lhs) THEN r.lhs ELSE r.rhs
OtherSide(r) == IF IsConst(pp, rout.lhs) THEN r.rhs ELSE r.lhs
IsNarrowOf(s, v, child, w) == IsOpc(s, v, "OpNarrow") /\ s.nodes[v].par = w /\ s.nodes[v].w = w /\ s.nodes[v].args = <<child>>

\* C31: narrow_const_operand changes an operand only when exactly one of
\* lhs/rhs is a constant and the width w of the other is below 64; it then
\* wraps the non-constant operand in a Narrow(w); in every other case both
\* operands are left unchanged.
C31_NarrowWrapsNonConstant == [][Narrowed => IF OneConstNarrow
                                             THEN /\ IsNarrowOf(pp', OtherSide(rout'), OtherSide(rout), operand_width(pp, OtherSide(rout)))
                                                  /\ ConstSide(rout') = ConstSide(rout)
                                             ELSE rout' = rout /\ pp' = pp]_vars

\* C31, as the code has it: the Narrow(w) wraps the constant operand, the
\* non-constant operand of width w stays, and both operands have width w
\* afterwards; in every other case nothing changes.
C31_NarrowWrapsConstant == [][Narrowed => IF OneConstNarrow
                                          THEN /\ IsNarrowOf(pp', ConstSide(rout'), ConstSide(rout), operand_width(pp, OtherSide(rout)))
                                               /\ OtherSide(rout') = OtherSide(rout)
                                               /\ operand_width(pp', rout'.lhs) = operand_width(pp', rout'.rhs)
                                               /\ Len(pp'.nodes) = Len(pp.nodes) + 1
                                          ELSE rout' = rout /\ pp' = pp]_vars

\* eax and a constant have been handed over and the constant came back
\* wrapped in a Narrow(32).
C31_ConstantNarrowed == /\ pc = "narrowed"
                        /\ cin.lhs = [k |-> "reg", name |-> "eax"]
                        /\ cin.rhs.k = "const"
                        /\ IsOpc(pp, rout.rhs, "OpNarrow")
                        /\ pp.nodes[rout.rhs].par = 32
                        /\ IsConst(pp, Arg(pp, rout.rhs, 0))

\* The state in which run() calls maybe_add_edge for the next instruction,
\* and the source and target blocks of the call.
EdgePre == IF needs_new_block THEN add_block(pp, MAddr(NextOffset, 0), <<>>, -1, {}).st ELSE pp
EdgeSource == block_of(EdgePre, MAddr(current_address[1], 0))
EdgeTarget == block_of(EdgePre, MAddr(NextOffset, 0))
EdgePost == maybe_add_edge(EdgePre, MAddr(current_address[1], 0), MAddr(NextOffset, 0))
Stepped == pc = "run" /\ Len(ops') = Len(ops) + 1

\* C32: maybe_add_edge(src, dst) inserts exactly one unconditional edge from
\* the block of src to the block of dst when the source block has no
\* outgoing edge and the two blocks differ, and nothing otherwise; hence no
\* fall-through edge is added to a block that ends in a jump, a return or a
\* conditional edge.
C32_FallThroughOnlyWithoutEdges == [][Stepped =>
        /\ IF EdgesFrom(EdgePre, EdgeSource) = {} /\ EdgeSource # EdgeTarget
           THEN EdgePost.edges = Append(EdgePre.edges, [src |-> EdgeSource, dst |-> EdgeTarget, ty |-> UNCOND_EDGE])
           ELSE EdgePost = EdgePre
        /\ (ops # <<>> /\ LastOp.kind \in {"jmp", "ijmp", "cjmp", "ret"}) => EdgePost = EdgePre]_vars

AfterInit == pc = "run" /\ ops = <<>>
EntryDefs(v) == {d \in DOMAIN pp.current_def[v] : block_of(pp, d) = pp.entry}
IsEntryComment(v, n) == /\ node_ok(pp, n)
                        /\ pp.nodes[n].nt = "Comment"
                        /\ pp.nodes[n].opc = (IF v < NumWhole THEN WholeNames[v + 1] ELSE "mem")
                        /\ pp.index_to_addr[n] = MAddr(0, 0)
EntryReads == {MAddr(a, k) : a \in 0..(U64Max - 1), k \in 0..1}

\* C33: after initialization every variable 0..R-1 and the variable R (mem)
\* has exactly one definition, a Comment recorded at (0,0); a read of any
\* variable inside the entry block returns that Comment and creates no phi;
\* the id of mem is the number of whole registers.
C33_OneDefinitionEach == AfterInit => \A v \in VarIds :
        /\ DOMAIN pp.current_def[v] = {MAddr(0, 0)}
        /\ IsEntryComment(v, pp.current_def[v][MAddr(0, 0)])
        /\ \A address \in EntryReads : read_variable(pp, address, v) = Ctx(pp, address, pp.current_def[v][MAddr(0, 0)])
        /\ MemId = NumWhole

\* C33, with the definitions counted in the entry block: the Comment at (0,0)
\* is the only definition of every variable in the entry block, the one other
\* definition is the phi of the exit block's register state, and a read
\* inside the entry block returns the Comment and changes nothing.
C33_OneEntryDefinitionEach == AfterInit => \A v \in VarIds :
        /\ EntryDefs(v) = {MAddr(0, 0)}
        /\ IsEntryComment(v, pp.current_def[v][MAddr(0, 0)])
        /\ \A d \in DOMAIN pp.current_def[v] \ {MAddr(0, 0)} :
              /\ block_of(pp, d) = pp.exit
              /\ IsPhi(pp, pp.current_def[v][d])
              /\ pp.regstate[pp.exit] \in DOMAIN pp.nodes
        /\ Cardinality(DOMAIN pp.current_def[v]) = 2
        /\ \A address \in EntryReads : read_variable(pp, address, v) = Ctx(pp, address, pp.current_def[v][MAddr(0, 0)])
        /\ MemId = NumWhole /\ DOMAIN pp.current_def = 0..NumWhole

C33_Initialized == AfterInit /\ pp.entry # InvalidAction /\ pp.exit # InvalidAction
                             /\ \A v \in VarIds : MAddr(0, 0) \in DOMAIN pp.current_def[v]

MemOps(s, o, opc) == {v \in 1..Len(s.nodes) : IsOpc(s, v, opc) /\ v \in DOMAIN s.index_to_addr /\ s.index_to_addr[v][1] = o.offset}
StoreOf(s, o) == CHOOSE v \in MemOps(s, o, "OpStore") : TRUE
LoadOf(s, o) == CHOOSE v \in MemOps(s, o, "OpLoad") : TRUE
MemStep(kind) == pc = "run" /\ Len(ops') = Len(ops) + 1 /\ ops'[Len(ops')].kind = kind
MemAfter == read_variable(pp', current_address', MemId).val
MemDefs(s, o) == {d \in DOMAIN s.current_def[MemId] : block_of(s, d) = block_of(s, MAddr(o.offset, 0))}
StoreAddr(s, o) == CHOOSE d \in MemDefs(s, o) : s.current_def[MemId][d] = StoreOf(s, o)
MemBelow(s, o) == {d \in MemDefs(s, o) : MLt(d, StoreAddr(s, o))}
LastPoke(os) == CHOOSE j \in 1..(Len(os) - 1) : os[j].kind = "poke" /\ \A i \in (j + 1)..(Len(os) - 1) : os[i].kind # "poke"
SameBlock(s, a, b) == block_of(s, MAddr(a.offset, 0)) = block_of(s, MAddr(b.offset, 0))

\* C34: a Poke creates one Store whose operand 0 is the definition of mem, and
\* the Store is the definition of mem afterwards; a Peek creates one Load of
\* the definition of mem, which stays the definition of mem; a Peek whose
\* latest Poke lies in its own block has the Store of that Poke as operand 0.
C34_MemoryChained == [][
        /\ MemStep("poke") =>
              /\ Cardinality(MemOps(pp', ops'[Len(ops')], "OpStore")) = 1
              /\ StoreOf(pp', ops'[Len(ops')]) \notin 1..Len(pp.nodes)
              /\ Len(pp'.nodes[StoreOf(pp', ops'[Len(ops')])].args) = 3
              /\ \E d \in MemDefs(pp', ops'[Len(ops')]) : pp'.current_def[MemId][d] = StoreOf(pp', ops'[Len(ops')])
              /\ MemBelow(pp', ops'[Len(ops')]) # {}
              /\ Arg(pp', StoreOf(pp', ops'[Len(ops')]), 0) = pp'.current_def[MemId][MMax(MemBelow(pp', ops'[Len(ops')]))]
              /\ MemAfter = StoreOf(pp', ops'[Len(ops')])
        /\ MemStep("peek") =>
              /\ Cardinality(MemOps(pp', ops'[Len(ops')], "OpLoad")) = 1
              /\ LoadOf(pp', ops'[Len(ops')]) \notin 1..Len(pp.nodes)
              /\ Len(pp'.nodes[LoadOf(pp', ops'[Len(ops')])].args) = 2
              /\ MemDefs(pp', ops'[Len(ops')]) \cap DOMAIN pp.current_def[MemId] # {} => pp'.current_def[MemId] = pp.current_def[MemId]
              /\ MemAfter = Arg(pp', LoadOf(pp', ops'[Len(ops')]), 0)
              /\ (\E j \in 1..Len(ops) : ops[j].kind = "poke" /\ SameBlock(pp', ops[LastPoke(ops')], ops'[Len(ops')]))
                    => Arg(pp', LoadOf(pp', ops'[Len(ops')]), 0) = StoreOf(pp', ops[LastPoke(ops')])]_vars

C34_PeekAfterPoke == /\ pc = "run" /\ Len(ops) >= 2 /\ LastOp.kind = "peek" /\ ops[Len(ops) - 1].kind = "poke"
                     /\ SameBlock(pp, ops[Len(ops) - 1], LastOp)
                     /\ Arg(pp, LoadOf(pp, LastOp), 0) = StoreOf(pp, ops[Len(ops) - 1])
                     /\ IsOpc(pp, Arg(pp, LoadOf(pp, LastOp), 0), "OpStore")

OpBlock(i) == block_of(pp, MAddr(ops[i].offset, 0))
Boundaries(b) == {i \in 1..(Len(ops) - 1) : OpBlock(i) = b /\ OpBlock(i + 1) # b /\ OpBlock(i + 1) # InvalidAction}
LastOf(b) == CHOOSE i \in 1..Len(ops) : OpBlock(i) = b /\ \A j \in 1..Len(ops) : OpBlock(j) = b => j <= i

\* C35: when finish has run, a block has a size exactly when one of its
\* instructions is directly followed by an instruction of another block;
\* that instruction is the last one of the block, the size is its address
\* minus the starting address of the block, and it is never negative.
C35_SizeAtBoundary == Finished => \A b \in 1..Len(pp.bstart) :
        /\ b \in DOMAIN pp.bsize <=> Boundaries(b) # {}
        /\ b \in DOMAIN pp.bsize =>
              /\ Boundaries(b) = {LastOf(b)}
              /\ pp.bsize[b] = ops[LastOf(b)].offset - starting_address(pp, b)[1]
              /\ pp.bsize[b] >= 0
              /\ starting_address(pp, b)[1] <= ops[LastOf(b)].offset

C35_SizeRecorded == Finished /\ \E b \in DOMAIN pp.bsize : pp.bsize[b] > 0 /\ \E c \in 1..Len(pp.bstart) : c # pp.entry /\ c # pp.exit /\ Boundaries(c) = {}

Addressed(s) == {v \in DOMAIN s.index_to_addr : node_ok(s, v) /\ s.nodes[v].nt \in {"Op", "Phi", "Comment", "Undefined"} /\ s.index_to_addr[v][1] \in {ops[i].offset : i \in 1..Len(ops)}}

\* C36: while the instructions are processed, two addressed values
\* (operations, phis, comments, undefined values) produced for a machine
\* instruction never share an (address, offset) pair, and within one
\* instruction the MAddresses strictly increase in creation order.
C36_AddressesDistinct == pc = "run" => \A u, v \in Addressed(pp) :
        (u < v /\ pp.index_to_addr[u][1] = pp.index_to_addr[v][1]) => MLt(pp.index_to_addr[u], pp.index_to_addr[v])

ForceSealed == pc = "force" /\ wl # <<>> /\ wl' = Tail(wl)

\* C37: the force-seal pass of finish never applies seal_block to a block
\* that is sealed already, be it by the worklist pass or by an earlier step
\* of the force-seal pass itself.
C37_ForceSealsUnsealed == [][ForceSealed => Head(wl) \notin pp.sealed_blocks]_vars

CondMovs == {i \in 1..(Len(ops) - 1) : ops[i].kind = "cmov"}
TrueBlocks(i) == {b \in 1..Len(pp.bstart) : pp.bstart[b][1] = ops[i].offset /\ pp.bstart[b][2] > 0}
NextBlock(i) == block_of(pp, MAddr(ops[i + 1].offset, 0))

\* C38: once the instruction after a conditional move has been processed,
\* the true-branch block of the conditional has a control edge to the block
\* of that instruction, and no edge to the exit block.
C38_TrueBlockFallsThrough == \A i \in CondMovs : \A b \in TrueBlocks(i) :
        /\ \E j \in 1..Len(pp.edges) : pp.edges[j].src = b /\ pp.edges[j].dst = NextBlock(i)
        /\ \A j \in 1..Len(pp.edges) : pp.edges[j].src = b => pp.edges[j].dst # pp.exit

JumpStepped == Stepped /\ ops'[Len(ops')].kind = "jmp"
JumpOrders == SUBSET split_candidates(jump_operands(Head0, MAddr(NextOffset, 0), ops'[Len(ops')].arg).st, MAddr(ops'[Len(ops')].arg, 0), MAddr(NextOffset, 0))

\* C39: the graph a direct jump leaves behind is the same for every order in
\* which the split may walk the value-to-address table: blocks, edges, phis
\* and operands do not depend on which values the walk reaches before it
\* stops.
C39_SplitOrderIrrelevant == [][JumpStepped => \A pick \in JumpOrders :
        process_jump(Head0, MAddr(NextOffset, 0), ops'[Len(ops')].arg, pick).st = pp']_vars

\* C40: after init_call_ctx every call edge whose callee is a function or an
\* import and whose call site holds an OpCall of the caller has its call
\* context resolved; no outgoing edge of a function with several callees is
\* skipped.
C40_EveryCallEdgeResolved == pc = "ctx_done" => \A i \in 1..Len(cout) :
        (cout[i].dst \in Functions \cup Imports /\ <<cout[i].src, cout[i].w.csite>> \in cin.calls) => cout[i].w.resolved

====
